---------------------------- MODULE Spec2Model ----------------------------
(***************************************************************************)
(* Model of the waste-report backend's attachment intake                   *)
(* (app/core/file_upload.py) and of the report handlers that use it        *)
(* (app/api/v1/waste_reports/router.py).                                   *)
(*                                                                         *)
(* Strings that the code takes apart (file names, paths) are sequences of  *)
(* tokens: a file name is a sequence of one-character strings, "/" is a    *)
(* token of its own in a path, and str(uuid.uuid4()) and str(report_id)    *)
(* are single tokens (they hold neither "." nor "/").                      *)
(* The bytes of an upload are a record [len, head]: the length of the      *)
(* body and its first min(len, 10) bytes, which is all the code reads of   *)
(* the content apart from its length.                                      *)
(***************************************************************************)
EXTENDS Integers, Sequences, FiniteSets, TLC

VARIABLES
    fs,        \* the files on disk: path -> content
    dirs,      \* the directories that exist under the upload root
    issued,    \* how many identifiers uuid.uuid4() has handed out
    reports,   \* table waste_reports: id -> row
    photos,    \* table waste_photos: set of rows
    nextId,    \* the auto-increment counters of the two tables
    procs,     \* the requests in flight: request id -> its position and locals
    call       \* the last completed call or request: its inputs and its outcome

vars == <<fs, dirs, issued, reports, photos, nextId, procs, call>>

-----------------------------------------------------------------------------
(* Constants of app/core/file_upload.py *)

UPLOAD_DIR == <<"uploads", "/", "waste-reports">>

ALLOWED_EXTENSIONS ==
    { <<".", "j", "p", "g">>, <<".", "j", "p", "e", "g">>, <<".", "p", "n", "g">> }

MAX_FILE_SIZE == 5 * 1024 * 1024

MAX_FILES_PER_REPORT == 10

ALLOWED_MIME_TYPES == { "image/jpeg", "image/png" }

\* file.content_type when the part carries no Content-Type header
None == "None"

\* The first bytes validate_file_content looks for.
JPEG_SIGNATURE == <<255, 216, 255>>
PNG_SIGNATURE == <<137, 80, 78, 71, 13, 10, 26, 10>>

-----------------------------------------------------------------------------
(* Exceptions *)

NoError == [exc |-> "", status_code |-> 0, detail |-> ""]

HTTPException(code, detail) ==
    [exc |-> "HTTPException", status_code |-> code, detail |-> detail]

\* `None > MAX_FILE_SIZE` in validate_file
TypeError == [exc |-> "TypeError", status_code |-> 0, detail |-> "'>' not supported"]

\* Path.unlink() failing
OSError == [exc |-> "OSError", status_code |-> 0, detail |-> "unlink"]

SizeExceeded == HTTPException(413, "File size exceeds maximum allowed size of 5MB")
UnsupportedExtension == HTTPException(400, "File type not allowed")
UnsupportedMediaType == HTTPException(400, "MIME type not allowed")
NotSaved == HTTPException(400, "File was not saved properly")
EmptyFile == HTTPException(400, "File is empty")
InvalidImageContent == HTTPException(400, "Invalid image file format")
SaveFailed == HTTPException(500, "Failed to save file")
TooManyFiles == HTTPException(400, "Maximum 10 files allowed per report")

-----------------------------------------------------------------------------
(* str and pathlib helpers *)

UpperCase == <<"A","B","C","D","E","F","G","H","I","J","K","L","M",
               "N","O","P","Q","R","S","T","U","V","W","X","Y","Z">>
LowerCase == <<"a","b","c","d","e","f","g","h","i","j","k","l","m",
               "n","o","p","q","r","s","t","u","v","w","x","y","z">>

\* str.lower() on one character
LowerChar(c) ==
    IF \E i \in 1..Len(UpperCase) : UpperCase[i] = c
    THEN LowerCase[CHOOSE i \in 1..Len(UpperCase) : UpperCase[i] = c]
    ELSE c

\* str.lower()
Lower(s) == [i \in 1..Len(s) |-> LowerChar(s[i])]

\* str.rfind(c): the last position of c in s, 0 when there is none
\* (positions count from 1 here, so Python's -1 is 0)
RFind(s, c) ==
    IF \E i \in 1..Len(s) : s[i] = c
    THEN CHOOSE i \in 1..Len(s) : s[i] = c /\ \A j \in (i+1)..Len(s) : s[j] # c
    ELSE 0

\* PurePath.name: the last component of the path
PathName(s) == SubSeq(s, RFind(s, "/") + 1, Len(s))

\* PurePath.parent
PathParent(s) == SubSeq(s, 1, RFind(s, "/") - 1)

\* PurePath.suffix: from the last dot of the name on, unless that dot leads
\* or ends the name
Suffix(s) ==
    LET name == PathName(s)
        i == RFind(name, ".")
    IN  IF 1 < i /\ i < Len(name) THEN SubSeq(name, i, Len(name)) ELSE <<>>

\* bytes.startswith
StartsWith(bytes, prefix) ==
    /\ Len(bytes) >= Len(prefix)
    /\ SubSeq(bytes, 1, Len(prefix)) = prefix

\* f.read(n) on a content
ReadHead(content, n) ==
    SubSeq(content.head, 1, IF Len(content.head) < n THEN Len(content.head) ELSE n)

\* truthiness of an optional string: None and "" are both false
Truthy(s) == s # <<>>

-----------------------------------------------------------------------------
(* Upload candidates (fastapi.UploadFile) *)

\* file.size: the attribute may be missing (hasattr is false), None, or a number
SizeMissing == [attr |-> FALSE, none |-> TRUE, n |-> 0]
SizeNone == [attr |-> TRUE, none |-> TRUE, n |-> 0]
SizeOf(n) == [attr |-> TRUE, none |-> FALSE, n |-> n]

UploadFile(filename, content_type, size, content) ==
    [filename |-> filename, content_type |-> content_type, size |-> size,
     content |-> content]

EmptyContent == [len |-> 0, head |-> <<>>]

-----------------------------------------------------------------------------
(* The store: a record [fs, dirs] *)

Store(f, d) == [fs |-> f, dirs |-> d]

\* Path.exists() on a file path
Exists(f, path) == path \in DOMAIN f

\* the store without the file at path
Remove(f, path) == [p \in DOMAIN f \ {path} |-> f[p]]

\* the store with content at path (created or replaced)
Put(f, path, content) ==
    [p \in DOMAIN f \cup {path} |-> IF p = path THEN content ELSE f[p]]

\* the directory of a report, were every report's files kept in one directory
ReportDirShared(report_id) == UPLOAD_DIR \o <<"/", "shared">>

\* the directory of a report, were the reports kept one level further down
ReportDirNested(report_id) == UPLOAD_DIR \o <<"/", "reports", "/", ToString(report_id)>>

\* self.upload_dir / str(report_id)
ReportDir(report_id) == UPLOAD_DIR \o <<"/", ToString(report_id)>>

\* The identifier part of a stored file's name. The environment's unlink
\* failures are given per call as the set `bad` of identifiers whose file
\* cannot be unlinked during that call (unlink raises OSError).
UuidOf(path) == PathName(path)[1]

UnlinkFails(path, bad) == UuidOf(path) \in bad

-----------------------------------------------------------------------------
(* FileUploadService *)

\* validate_file without its extension check
ValidateFileNoExtension(file) ==
    IF file.size.attr /\ file.size.none THEN TypeError
    ELSE IF file.size.attr /\ file.size.n > MAX_FILE_SIZE THEN SizeExceeded
    ELSE IF file.content_type \notin ALLOWED_MIME_TYPES THEN UnsupportedMediaType
    ELSE NoError

\* validate_file checking the content type only when there is one
ValidateFileMissingTypeOk(file) ==
    IF file.size.attr /\ file.size.none THEN TypeError
    ELSE IF file.size.attr /\ file.size.n > MAX_FILE_SIZE THEN SizeExceeded
    ELSE IF Truthy(file.filename)
            /\ Lower(Suffix(file.filename)) \notin ALLOWED_EXTENSIONS
         THEN UnsupportedExtension
    ELSE IF file.content_type # None /\ file.content_type \notin ALLOWED_MIME_TYPES
         THEN UnsupportedMediaType
    ELSE NoError

ValidateFile(file) ==
    IF file.size.attr /\ file.size.none THEN TypeError
    ELSE IF file.size.attr /\ file.size.n > MAX_FILE_SIZE THEN SizeExceeded
    ELSE IF Truthy(file.filename)
            /\ Lower(Suffix(file.filename)) \notin ALLOWED_EXTENSIONS
         THEN UnsupportedExtension
    ELSE IF file.content_type \notin ALLOWED_MIME_TYPES THEN UnsupportedMediaType
    ELSE NoError

\* validate_file_content without the signature check
ContentCheckNoSignature(f, file_path) ==
    IF ~Exists(f, file_path) THEN NotSaved
    ELSE IF f[file_path].len = 0 THEN EmptyFile
    ELSE NoError

\* The checks of validate_file_content, before its except clauses.
ContentCheck(f, file_path) ==
    IF ~Exists(f, file_path) THEN NotSaved
    ELSE IF f[file_path].len = 0 THEN EmptyFile
    ELSE LET header == ReadHead(f[file_path], 10)
         IN  IF StartsWith(header, JPEG_SIGNATURE) THEN NoError
             ELSE IF StartsWith(header, PNG_SIGNATURE) THEN NoError
             ELSE InvalidImageContent

\* `if file_path.exists(): file_path.unlink()` of a cleanup clause:
\* [fs, err], err being OSError when the unlink raises
UnlinkIfExists(f, file_path, bad) ==
    IF ~Exists(f, file_path) THEN [fs |-> f, err |-> NoError]
    ELSE IF UnlinkFails(file_path, bad) THEN [fs |-> f, err |-> OSError]
    ELSE [fs |-> Remove(f, file_path), err |-> NoError]

\* validate_file_content: [fs, err]
ValidateFileContent(f, file_path, bad) ==
    LET e == ContentCheck(f, file_path)
        u == UnlinkIfExists(f, file_path, bad)
    IN  IF e = NoError THEN [fs |-> f, err |-> NoError]
        ELSE IF u.err # NoError THEN u
        ELSE [fs |-> u.fs, err |-> e]

\* a stored name built on one and the same identifier at every call
GenerateFilenameFixedId(original_filename, unique_id) ==
    <<"0">> \o Lower(Suffix(IF Truthy(original_filename) THEN original_filename
                            ELSE <<"u","n","n","a","m","e","d",".","j","p","g">>))

\* a stored name that keeps the extension as it was declared
GenerateFilenameKeepsCase(original_filename, unique_id) ==
    <<unique_id>> \o Suffix(IF Truthy(original_filename) THEN original_filename
                            ELSE <<"u","n","n","a","m","e","d",".","j","p","g">>)

\* generate_unique_filename: unique_id is what str(uuid.uuid4()) returned
GenerateUniqueFilename(original_filename, unique_id) ==
    LET name == IF ~Truthy(original_filename)
                THEN <<"u","n","n","a","m","e","d",".","j","p","g">>
                ELSE original_filename
    IN  <<unique_id>> \o Lower(Suffix(name))

CreateReportDirectory(d, report_id) == d \cup {ReportDir(report_id)}

\* save_file's except clauses re-raising without the unlink
SaveFileCleanupKeepsFile(f, file_path, e, bad) ==
    IF e.exc = "HTTPException" THEN [fs |-> f, err |-> e]
    ELSE [fs |-> f, err |-> SaveFailed]

\* The except clauses of save_file, entered with exception e raised in the
\* try block: [fs, err]
SaveFileCleanup(f, file_path, e, bad) ==
    LET u == UnlinkIfExists(f, file_path, bad)
    IN  IF u.err # NoError THEN u
        ELSE IF e.exc = "HTTPException" THEN [fs |-> u.fs, err |-> e]
        ELSE [fs |-> u.fs, err |-> SaveFailed]

\* save_file: [fs, dirs, err, ref, drew]; ref is the returned path, drew tells
\* whether the call took unique_id from uuid4
SaveFile(s, file, report_id, unique_id, bad) ==
    LET v == ValidateFile(file)
        d1 == CreateReportDirectory(s.dirs, report_id)
        filename == GenerateUniqueFilename(file.filename, unique_id)
        file_path == ReportDir(report_id) \o <<"/">> \o filename
        opened == Put(s.fs, file_path, EmptyContent)
        tooBig == file.content.len > MAX_FILE_SIZE
        written == Put(opened, file_path, file.content)
        vc == IF tooBig THEN [fs |-> opened, err |-> SizeExceeded]
              ELSE ValidateFileContent(written, file_path, bad)
        c == SaveFileCleanup(vc.fs, file_path, vc.err, bad)
    IN  IF v # NoError
        THEN [fs |-> s.fs, dirs |-> s.dirs, err |-> v, ref |-> <<>>, drew |-> FALSE]
        ELSE IF vc.err = NoError
        THEN [fs |-> vc.fs, dirs |-> d1, err |-> NoError,
              ref |-> UPLOAD_DIR \o <<"/", ToString(report_id), "/">> \o filename,
              drew |-> TRUE]
        ELSE [fs |-> c.fs, dirs |-> d1, err |-> c.err, ref |-> <<>>, drew |-> TRUE]

\* save_multiple_files re-raising without its cleanup loop
RollbackKeepsFiles(f, saved_files, j, bad) == [fs |-> f, err |-> NoError]

\* The cleanup loop of save_multiple_files over saved_files[j..]: [fs, err]
RECURSIVE Rollback(_, _, _, _)
Rollback(f, saved_files, j, bad) ==
    IF j > Len(saved_files) THEN [fs |-> f, err |-> NoError]
    ELSE LET u == UnlinkIfExists(f, saved_files[j], bad)
         IN  IF u.err # NoError THEN u
             ELSE Rollback(u.fs, saved_files, j + 1, bad)

\* save_multiple_files going on to the next candidate after one has failed,
\* and raising the failure at the end of the loop
AfterSaveFileContinues(r, i, file_paths, examined, bad, rest) ==
    IF r.err = NoError
    THEN [rest EXCEPT !.used = @ + 1]
    ELSE [rest EXCEPT !.err = r.err, !.file_paths = <<>>,
                      !.used = @ + (IF r.drew THEN 1 ELSE 0)]

\* What save_multiple_files does once save_file has ended with r on
\* candidate i: on an exception the except clause (the cleanup loop, then
\* `raise`), otherwise the rest of the loop, given as `rest`.
AfterSaveFile(r, i, file_paths, examined, bad, rest) ==
    IF r.err = NoError
    THEN [rest EXCEPT !.used = @ + 1]
    ELSE LET rb == Rollback(r.fs, file_paths, 1, bad)
         IN  [fs |-> rb.fs, dirs |-> r.dirs,
              err |-> IF rb.err # NoError THEN rb.err ELSE r.err,
              file_paths |-> <<>>, used |-> IF r.drew THEN 1 ELSE 0,
              examined |-> Append(examined, i)]

\* The loop of save_multiple_files from candidate i on, file_paths being the
\* paths saved so far and ids the identifiers uuid4 has yet to hand out:
\* [fs, dirs, err, file_paths, used, examined]
RECURSIVE SaveLoop(_, _, _, _, _, _, _, _)
SaveLoop(s, files, i, report_id, ids, file_paths, examined, bad) ==
    IF i > Len(files)
    THEN [fs |-> s.fs, dirs |-> s.dirs, err |-> NoError, file_paths |-> file_paths,
          used |-> 0, examined |-> examined]
    ELSE IF ~Truthy(files[i].filename)
    THEN SaveLoop(s, files, i + 1, report_id, ids, file_paths, examined, bad)
    ELSE CHOOSE out \in
           { AfterSaveFile(r, i, file_paths, examined, bad,
                 SaveLoop(Store(r.fs, r.dirs), files, i + 1, report_id, Tail(ids),
                          Append(file_paths, r.ref), Append(examined, i), bad)) :
               r \in { SaveFile(s, files[i], report_id, Head(ids), bad) } } : TRUE

\* save_multiple_files without the limit on the batch
SaveMultipleFilesNoLimit(s, files, report_id, ids, bad) ==
    SaveLoop(s, files, 1, report_id, ids, <<>>, <<>>, bad)

\* save_multiple_files refusing a batch of exactly MAX_FILES_PER_REPORT
SaveMultipleFilesOffByOne(s, files, report_id, ids, bad) ==
    IF Len(files) >= MAX_FILES_PER_REPORT
    THEN [fs |-> s.fs, dirs |-> s.dirs, err |-> TooManyFiles, file_paths |-> <<>>,
          used |-> 0, examined |-> <<>>]
    ELSE SaveLoop(s, files, 1, report_id, ids, <<>>, <<>>, bad)

\* save_multiple_files: [fs, dirs, err, file_paths, used, examined]
SaveMultipleFiles(s, files, report_id, ids, bad) ==
    IF Len(files) > MAX_FILES_PER_REPORT
    THEN [fs |-> s.fs, dirs |-> s.dirs, err |-> TooManyFiles, file_paths |-> <<>>,
          used |-> 0, examined |-> <<>>]
    ELSE SaveLoop(s, files, 1, report_id, ids, <<>>, <<>>, bad)

\* delete_file without its except clause
DeleteFileRaises(f, file_path, bad) == UnlinkIfExists(f, file_path, bad)

\* delete_file: [fs, err]; the except clause swallows the error of unlink
DeleteFile(f, file_path, bad) ==
    [fs |-> UnlinkIfExists(f, file_path, bad).fs, err |-> NoError]

\* The files iterdir() lists in a directory
FilesIn(f, dir) == { p \in DOMAIN f : PathParent(p) = dir }

\* delete_report_files deleting the whole upload directory
DeleteReportFilesAll(s, report_id, bad) == { Store(<<>>, {}) }

\* the paths of a set, one after the other
RECURSIVE Listing(_)
Listing(paths) ==
    IF paths = {} THEN <<>>
    ELSE LET q == CHOOSE x \in paths : TRUE
         IN  <<q>> \o Listing(paths \ { q })

\* delete_report_files: the stores it can leave. iterdir() lists the files in
\* no fixed order and the first unlink that raises ends the loop (the error is
\* swallowed), so with a file that cannot be unlinked any set of the other
\* files may be gone; without one, every file and the directory are.
DeleteReportFiles(s, report_id, bad) ==
    LET report_dir == ReportDir(report_id)
        inDir == FilesIn(s.fs, report_dir)
        stuck == { p \in inDir : UnlinkFails(p, bad) }
    IN  IF report_dir \notin s.dirs THEN {s}
        ELSE IF stuck = {}
        THEN { Store([p \in DOMAIN s.fs \ inDir |-> s.fs[p]], s.dirs \ {report_dir}) }
        ELSE { Store([p \in DOMAIN s.fs \ gone |-> s.fs[p]], s.dirs) :
                 gone \in SUBSET (inDir \ stuck) }

-----------------------------------------------------------------------------
(* Bounds and inputs *)

\* report identifiers 1..MaxReports
MaxReports == 2

\* a call that takes identifiers from uuid4 starts only while fewer than
\* MaxUuid have been handed out
MaxUuid == 2

\* the longest run of valid candidates at the head of an enumerated batch
MaxPrefix == 3

ReportIds == 1..MaxReports

JpegBody == [len |-> 4, head |-> <<255, 216, 255, 224>>]
PngBody == [len |-> 20, head |-> PNG_SIGNATURE \o <<0, 0>>]
TextBody == [len |-> 5, head |-> <<104, 101, 108, 108, 111>>]
BigJpegBody ==
    [len |-> MAX_FILE_SIZE + 1, head |-> <<255, 216, 255, 224, 0, 16, 74, 70, 73, 70>>]

ValidJpeg ==
    UploadFile(<<"a", ".", "J", "P", "G">>, "image/jpeg", SizeOf(4), JpegBody)
ValidPng ==
    UploadFile(<<"b", ".", "p", "n", "g">>, "image/png", SizeOf(20), PngBody)
GifFile ==
    UploadFile(<<"d", ".", "g", "i", "f">>, "image/gif", SizeOf(4), JpegBody)
TextAsJpeg ==
    UploadFile(<<"a", ".", "j", "p", "g">>, "image/jpeg", SizeOf(5), TextBody)
BigFile ==
    UploadFile(<<"c", ".", "j", "p", "e", "g">>, "image/jpeg", SizeOf(4), BigJpegBody)
NoSizeFile ==
    UploadFile(<<"a", ".", "J", "P", "G">>, "image/jpeg", SizeNone, JpegBody)
NoNameFile == UploadFile(<<>>, "image/jpeg", SizeOf(4), JpegBody)

\* The candidates save_file is tried on: every combination of these names,
\* content types, declared sizes and bodies.
FileNames ==
    { <<>>,
      <<"a", ".", "J", "P", "G">>,
      <<"b", ".", "p", "n", "g">>,
      <<"c", ".", "j", "p", "e", "g">>,
      <<"d", ".", "g", "i", "f">>,
      <<"e">>,
      <<".", "p", "n", "g">>,
      <<".", ".", "/", "x", ".", "p", "n", "g">> }

ContentTypes == { "image/jpeg", "image/png", "image/gif", None }

Sizes ==
    { SizeMissing, SizeNone, SizeOf(4), SizeOf(MAX_FILE_SIZE), SizeOf(MAX_FILE_SIZE + 1) }

Bodies ==
    { EmptyContent, JpegBody, PngBody, TextBody, BigJpegBody,
      [len |-> 4, head |-> <<137, 80, 78, 71>>],
      [len |-> 2, head |-> <<255, 216>>],
      [len |-> MAX_FILE_SIZE, head |-> PNG_SIGNATURE \o <<0, 0>>],
      [len |-> MAX_FILE_SIZE + 1, head |-> <<104, 101, 108, 108, 111, 32, 119, 111, 114, 108>>] }

Files ==
    { UploadFile(n, t, s, b) :
        n \in FileNames, t \in ContentTypes, s \in Sizes, b \in Bodies }

ValidFiles == { ValidJpeg, ValidPng }
FailingFiles == { GifFile, TextAsJpeg, BigFile, NoSizeFile }
BatchFiles == ValidFiles \cup FailingFiles \cup { NoNameFile }

SeqsUpTo(S, n) == UNION { [1..k -> S] : k \in 0..n }

Repeat(c, n) == [i \in 1..n |-> c]

\* n valid candidates, JPEG and PNG in turn
ValidRun(n) == [i \in 1..n |-> IF i % 2 = 1 THEN ValidJpeg ELSE ValidPng]

\* The batches tried: a run of valid candidates, then possibly one candidate
\* that fails or has no name, then possibly one more valid candidate; and
\* the batches around the limit of MAX_FILES_PER_REPORT.
Batches ==
    { pre \o mid \o post :
        pre \in SeqsUpTo(ValidFiles, MaxPrefix),
        mid \in SeqsUpTo(FailingFiles \cup { NoNameFile }, 1),
        post \in SeqsUpTo({ ValidPng }, 1) }
    \cup { ValidRun(MAX_FILES_PER_REPORT),
           ValidRun(MAX_FILES_PER_REPORT + 1),
           ValidRun(MAX_FILES_PER_REPORT - 1) \o <<TextAsJpeg>>,
           Repeat(GifFile, MAX_FILES_PER_REPORT + 1) }

\* The identifiers the next n calls of uuid4 return: str(uuid4()) is modelled
\* as a token never handed out before.
FreshIds(n) == [k \in 1..n |-> ToString(issued + k)]

\* a path that names no file
NoSuchPath == ReportDir(1) \o <<"/", "missing", ".", "j", "p", "g">>

-----------------------------------------------------------------------------
(* The service called directly, one call at a time *)

NoCall ==
    [op |-> "none", report_id |-> 0, files |-> <<>>, path |-> <<>>,
     err |-> NoError, refs |-> <<>>, examined |-> <<>>, bad |-> {}]

Init ==
    /\ fs = <<>>
    /\ dirs = {}
    /\ issued = 0
    /\ reports = <<>>
    /\ photos = {}
    /\ nextId = [report |-> 1, photo |-> 1, request |-> 1]
    /\ procs = <<>>
    /\ call = NoCall

DbUnchanged == UNCHANGED <<reports, photos, nextId, procs>>

\* No call is under way and the outcome of the last one has been taken.
Idle == call.op = "none"

\* The caller takes the outcome of its call; it makes its next call after that.
Return ==
    /\ ~Idle
    /\ call' = NoCall
    /\ UNCHANGED <<fs, dirs, issued>>
    /\ DbUnchanged

\* save_file(file, report_id) with unlink failing on the identifiers in bad
DoSaveFile(file, report_id, bad) ==
    /\ Idle
    /\ issued < MaxUuid
    /\ \E r \in { SaveFile(Store(fs, dirs), file, report_id, FreshIds(1)[1], bad) } :
        /\ fs' = r.fs
        /\ dirs' = r.dirs
        /\ issued' = issued + (IF r.drew THEN 1 ELSE 0)
        /\ call' = [NoCall EXCEPT !.op = "save_file", !.report_id = report_id,
                                  !.files = <<file>>, !.err = r.err,
                                  !.refs = IF r.err = NoError THEN <<r.ref>> ELSE <<>>,
                                  !.bad = bad]
        /\ DbUnchanged

\* save_multiple_files(files, report_id)
DoSaveMultipleFiles(files, report_id, bad) ==
    /\ Idle
    /\ issued < MaxUuid
    /\ \E r \in { SaveMultipleFiles(Store(fs, dirs), files, report_id,
                                     FreshIds(Len(files)), bad) } :
        /\ fs' = r.fs
        /\ dirs' = r.dirs
        /\ issued' = issued + r.used
        /\ call' = [NoCall EXCEPT !.op = "save_multiple_files",
                                  !.report_id = report_id, !.files = files,
                                  !.err = r.err, !.refs = r.file_paths,
                                  !.examined = r.examined, !.bad = bad]
        /\ DbUnchanged

\* delete_file(file_path); single files are deleted from stores of at most
\* MaxUuid files
DoDeleteFile(file_path, bad) ==
    /\ Idle
    /\ Cardinality(DOMAIN fs) <= MaxUuid
    /\ \E r \in { DeleteFile(fs, file_path, bad) } :
          /\ fs' = r.fs
          /\ call' = [NoCall EXCEPT !.op = "delete_file", !.path = file_path,
                                    !.bad = bad, !.err = r.err]
    /\ UNCHANGED <<dirs, issued>>
    /\ DbUnchanged

\* delete_report_files(report_id)
DoDeleteReportFiles(report_id, bad) ==
    /\ Idle
    /\ \E s \in DeleteReportFiles(Store(fs, dirs), report_id, bad) :
          /\ fs' = s.fs
          /\ dirs' = s.dirs
    /\ call' = [NoCall EXCEPT !.op = "delete_report_files",
                              !.report_id = report_id, !.bad = bad,
                              !.refs = Listing(FilesIn(fs, ReportDir(report_id)))]
    /\ UNCHANGED issued
    /\ DbUnchanged

CallSaveFile == \E file \in BatchFiles, report_id \in ReportIds :
    DoSaveFile(file, report_id, {})

CallSaveMultipleFiles == \E files \in Batches, report_id \in ReportIds :
    DoSaveMultipleFiles(files, report_id, {})

CallDeleteFile == \E file_path \in DOMAIN fs \cup { NoSuchPath } :
    DoDeleteFile(file_path, {})

CallDeleteReportFiles == \E report_id \in ReportIds :
    DoDeleteReportFiles(report_id, {})

NextService ==
    \/ CallSaveFile
    \/ CallSaveMultipleFiles
    \/ CallDeleteFile
    \/ CallDeleteReportFiles
    \/ Return

\* save_file on every candidate of Files, as the first call on an empty store
\* or on a store that already holds a file of report 1
CallSaveFileAny == \E file \in Files, report_id \in ReportIds :
    DoSaveFile(file, report_id, {})

SeededStore == SaveFile(Store(<<>>, {}), ValidJpeg, 1, ToString(1), {})

InitFile ==
    /\ \/ fs = <<>> /\ dirs = {} /\ issued = 0
       \/ fs = SeededStore.fs /\ dirs = SeededStore.dirs /\ issued = 1
    /\ reports = <<>>
    /\ photos = {}
    /\ nextId = [report |-> 1, photo |-> 1, request |-> 1]
    /\ procs = <<>>
    /\ call = NoCall

\* One call of save_file, on any candidate.
SpecFile == InitFile /\ [][CallSaveFileAny]_vars

\* The service used by one caller at a time on a file system whose unlink
\* does not fail.
SpecService == Init /\ [][NextService]_vars

\* at most MaxFaulty of the names a call draws are names of files that
\* cannot be unlinked
MaxFaulty == 2

\* The sets of identifiers whose files unlink may fail on during a call that
\* draws its names from ids
FaultSets(ids) == SUBSET { ids[k] : k \in 1..MaxFaulty }

\* unlink is made to fail in the calls that draw the first names: on the
\* empty store, or on a store that holds one file already
FirstNames == issued <= 1

CallSaveFileFaulty == \E file \in BatchFiles, report_id \in ReportIds :
    /\ FirstNames
    /\ \E bad \in FaultSets(FreshIds(MaxFaulty)) : DoSaveFile(file, report_id, bad)

\* The batches tried with failing unlinks: those of at most MaxFaulty + 1
\* candidates, so that every sibling of a failing candidate may be one that
\* cannot be unlinked
FaultBatches == { files \in Batches : Len(files) <= MaxFaulty + 1 }

CallSaveMultipleFilesFaulty == \E files \in FaultBatches, report_id \in ReportIds :
    /\ FirstNames
    /\ \E bad \in FaultSets(FreshIds(MaxFaulty)) :
          DoSaveMultipleFiles(files, report_id, bad)

CallDeleteFileFaulty == \E file_path \in DOMAIN fs \cup { NoSuchPath } :
    \E bad \in SUBSET { UuidOf(file_path) } : DoDeleteFile(file_path, bad)

CallDeleteReportFilesFaulty == \E report_id \in ReportIds :
    /\ Cardinality(DOMAIN fs) <= MaxUuid
    /\ \E bad \in SUBSET { UuidOf(q) : q \in FilesIn(fs, ReportDir(report_id)) } :
          DoDeleteReportFiles(report_id, bad)

NextFault ==
    \/ CallSaveFileFaulty
    \/ CallSaveMultipleFilesFaulty
    \/ CallDeleteFileFaulty
    \/ CallDeleteReportFilesFaulty
    \/ Return

\* The service used by one caller at a time on a file system where unlink
\* raises OSError on some of the files.
SpecFault == InitFile /\ [][NextFault]_vars

-----------------------------------------------------------------------------
(* The report handlers of app/api/v1/waste_reports/router.py, run            *)
(* concurrently. A request is a record of procs; each action is the part of  *)
(* a handler between two points where another request can run: the upload    *)
(* handlers are coroutines that await save_multiple_files, the delete        *)
(* handler is a plain function that the server runs in a worker thread.      *)
(* A request that has been answered leaves procs, and call holds the answer. *)

\* the number of requests received
MaxRequests == 2

\* The photos sent with a create or update request
ApiBatches ==
    { <<>>, <<NoNameFile>>, <<ValidJpeg, ValidPng>>, <<ValidPng, TextAsJpeg>> }

\* The description sent with an update request; None when the field is not sent
Descriptions == { None, "edited" }

\* `if photos and any(photo.filename for photo in photos)`
HasPhotos(files) == files # <<>> /\ \E i \in 1..Len(files) : Truthy(files[i].filename)

\* A request: the handler, where it stands, its report, its photos, the
\* photo_urls save_multiple_files returned to it and the error its upload
\* stage swallowed. cleared records that delete_report_files has run on the
\* report since save_multiple_files returned to the request; refilled, that
\* save_multiple_files has stored files for the report since the request's
\* delete_report_files returned.
Request(op, pc, report_id, files) ==
    [op |-> op, pc |-> pc, report_id |-> report_id, photos |-> files,
     photo_urls |-> <<>>, cleared |-> FALSE, refilled |-> FALSE,
     swallowed |-> NoError]

\* The requests after save_multiple_files has returned r to request p, which
\* goes on as next
AfterSave(p, r, next) ==
    [q \in DOMAIN procs |->
       IF q = p THEN next
       ELSE IF /\ procs[q].pc = "row"
               /\ procs[q].report_id = procs[p].report_id
               /\ r.file_paths # <<>>
       THEN [procs[q] EXCEPT !.refilled = TRUE]
       ELSE procs[q]]

NotFound == HTTPException(404, "Waste report not found")
CreateFailed == HTTPException(500, "Failed to create waste report")
DeleteFailed == HTTPException(500, "Failed to delete waste report")
\* the handler returned None where the response model wants a report
ResponseInvalid == [exc |-> "ResponseValidationError", status_code |-> 500, detail |-> ""]

\* The answer to a request, with the photos the request carried: err is
\* NoError when the handler returned
Response(op, report_id, files, err) ==
    [NoCall EXCEPT !.op = op, !.report_id = report_id, !.files = files, !.err = err]

\* WasteReportRepository.get
Get(report_id) == IF report_id \in DOMAIN reports THEN report_id ELSE 0

\* WastePhotoRepository.create_multiple: the rows it adds
NewPhotos(waste_report_id, photo_urls) ==
    { [id |-> nextId.photo + k - 1, waste_report_id |-> waste_report_id,
       photo_url |-> photo_urls[k]] : k \in 1..Len(photo_urls) }

ServiceUnchanged == UNCHANGED <<fs, dirs, issued>>

\* a request arrives and gets the next request number
Arrives(req) ==
    /\ nextId.request <= MaxRequests
    /\ procs' = [p \in DOMAIN procs \cup { nextId.request } |->
                   IF p = nextId.request THEN req ELSE procs[p]]

\* the request is answered
Answered(p, err) ==
    /\ procs' = [q \in DOMAIN procs \ { p } |-> procs[q]]
    /\ call' = Response(procs[p].op, procs[p].report_id, procs[p].photos, err)

\* create_waste_report up to its call of save_multiple_files: the report row
\* is committed
CreateReport == \E files \in ApiBatches :
    /\ nextId.report <= MaxReports
    /\ Arrives(Request("create", IF HasPhotos(files) THEN "save" ELSE "refresh",
                       nextId.report, files))
    /\ reports' = [i \in DOMAIN reports \cup { nextId.report } |->
                     IF i = nextId.report
                     THEN [status |-> "pending", description |-> None]
                     ELSE reports[i]]
    /\ nextId' = [nextId EXCEPT !.report = @ + 1, !.request = @ + 1]
    /\ UNCHANGED <<photos, call>>
    /\ ServiceUnchanged

\* update_waste_report up to its call of save_multiple_files: 404 when the
\* report is not there, otherwise the fields sent are written and committed
UpdateReport == \E report_id \in ReportIds, files \in ApiBatches, description \in Descriptions :
    /\ IF Get(report_id) = 0
       THEN /\ nextId.request <= MaxRequests
            /\ call' = Response("update", report_id, files, NotFound)
            /\ UNCHANGED <<procs, reports>>
       ELSE /\ Arrives(Request("update", IF HasPhotos(files) THEN "save" ELSE "refresh",
                               report_id, files))
            /\ reports' = IF description = None THEN reports
                          ELSE [reports EXCEPT ![report_id].description = description]
            /\ UNCHANGED call
    /\ nextId' = [nextId EXCEPT !.request = @ + 1]
    /\ UNCHANGED photos
    /\ ServiceUnchanged

\* an upload handler that lets the error of save_multiple_files reach the client
SavePhotosNoSwallow(p) ==
    /\ procs[p].pc = "save"
    /\ \E r \in { SaveMultipleFiles(Store(fs, dirs), procs[p].photos, procs[p].report_id,
                                     FreshIds(Len(procs[p].photos)), {}) } :
        /\ fs' = r.fs
        /\ dirs' = r.dirs
        /\ issued' = issued + r.used
        /\ IF r.err = NoError
           THEN /\ procs' = AfterSave(p, r, [procs[p] EXCEPT !.pc = "commit",
                                                             !.photo_urls = r.file_paths])
                /\ UNCHANGED call
           ELSE Answered(p, r.err)
    /\ UNCHANGED <<reports, photos, nextId>>

\* an upload handler that counts the files the report has already against the
\* limit
SavePhotosCountsStored(p) ==
    /\ procs[p].pc = "save"
    /\ \E r \in { IF Cardinality(FilesIn(fs, ReportDir(procs[p].report_id)))
                       + Len(procs[p].photos) > MAX_FILES_PER_REPORT
                   THEN [fs |-> fs, dirs |-> dirs, err |-> TooManyFiles, file_paths |-> <<>>,
                         used |-> 0, examined |-> <<>>]
                   ELSE SaveMultipleFiles(Store(fs, dirs), procs[p].photos,
                                          procs[p].report_id,
                                          FreshIds(Len(procs[p].photos)), {}) } :
        /\ fs' = r.fs
        /\ dirs' = r.dirs
        /\ issued' = issued + r.used
        /\ procs' = AfterSave(p, r,
                       [procs[p] EXCEPT
                          !.pc = IF r.err = NoError /\ r.file_paths # <<>>
                                 THEN "commit" ELSE "refresh",
                          !.photo_urls = r.file_paths,
                          !.swallowed = r.err])
    /\ UNCHANGED <<reports, photos, nextId, call>>

\* `photo_urls = await file_upload_service.save_multiple_files(photos, id)` in
\* either upload handler; an exception is swallowed by the handler
SavePhotos(p) ==
    /\ procs[p].pc = "save"
    /\ \E r \in { SaveMultipleFiles(Store(fs, dirs), procs[p].photos, procs[p].report_id,
                                     FreshIds(Len(procs[p].photos)), {}) } :
        /\ fs' = r.fs
        /\ dirs' = r.dirs
        /\ issued' = issued + r.used
        /\ procs' = AfterSave(p, r,
                       [procs[p] EXCEPT
                          !.pc = IF r.err = NoError /\ r.file_paths # <<>>
                                 THEN "commit" ELSE "refresh",
                          !.photo_urls = r.file_paths,
                          !.swallowed = r.err])
    /\ UNCHANGED <<reports, photos, nextId, call>>

\* WastePhotoRepository.create_multiple in either upload handler. The rows
\* refer to the report by a foreign key: when the report is gone the commit
\* fails, and the handler swallows the error.
CommitPhotos(p) ==
    /\ procs[p].pc = "commit"
    /\ IF Get(procs[p].report_id) # 0
       THEN /\ photos' = photos \cup NewPhotos(procs[p].report_id, procs[p].photo_urls)
            /\ nextId' = [nextId EXCEPT !.photo = @ + Len(procs[p].photo_urls)]
            /\ procs' = [procs EXCEPT ![p].pc = "refresh"]
       ELSE /\ UNCHANGED <<photos, nextId>>
            /\ procs' = [procs EXCEPT ![p].pc = "refresh",
                                      ![p].swallowed = [exc |-> "IntegrityError",
                                                        status_code |-> 0,
                                                        detail |-> "foreign key"]]
    /\ UNCHANGED <<reports, call>>
    /\ ServiceUnchanged

\* The end of either upload handler: the report is read again and returned.
\* After a commit that failed the session refuses the query until it is
\* rolled back; create_waste_report turns that into its 500, and so it does
\* with a report that is gone.
RefreshReport(p) ==
    /\ procs[p].pc = "refresh"
    /\ Answered(p, IF procs[p].swallowed.exc = "IntegrityError"
                   THEN (IF procs[p].op = "create" THEN CreateFailed
                         ELSE [exc |-> "PendingRollbackError", status_code |-> 500,
                               detail |-> ""])
                   ELSE IF Get(procs[p].report_id) # 0 THEN NoError
                   ELSE ResponseInvalid)
    /\ UNCHANGED <<reports, photos, nextId>>
    /\ ServiceUnchanged

\* delete_waste_report up to its call of delete_report_files
DeleteReport == \E report_id \in ReportIds :
    /\ IF Get(report_id) = 0
       THEN /\ nextId.request <= MaxRequests
            /\ call' = Response("delete", report_id, <<>>, NotFound)
            /\ UNCHANGED procs
       ELSE /\ Arrives(Request("delete", "files", report_id, <<>>))
            /\ UNCHANGED call
    /\ nextId' = [nextId EXCEPT !.request = @ + 1]
    /\ UNCHANGED <<reports, photos>>
    /\ ServiceUnchanged

\* a delete handler that leaves the files where they are
DeleteFilesSkipped(p) ==
    /\ procs[p].pc = "files"
    /\ procs' = [procs EXCEPT ![p].pc = "row"]
    /\ UNCHANGED <<fs, dirs, reports, photos, nextId, issued, call>>

\* file_upload_service.delete_report_files(report_id) in delete_waste_report
DeleteFiles(p) ==
    /\ procs[p].pc = "files"
    /\ \E s \in DeleteReportFiles(Store(fs, dirs), procs[p].report_id, {}) :
          /\ fs' = s.fs
          /\ dirs' = s.dirs
    /\ procs' = [q \in DOMAIN procs |->
                   IF q = p THEN [procs[q] EXCEPT !.pc = "row"]
                   ELSE IF procs[q].pc = "commit" /\ procs[q].report_id = procs[p].report_id
                   THEN [procs[q] EXCEPT !.cleared = TRUE]
                   ELSE procs[q]]
    /\ UNCHANGED <<reports, photos, nextId, issued, call>>

\* WasteReportRepository.delete deleting the report row and leaving its photo
\* rows
DeleteRowNoCascade(p) ==
    /\ procs[p].pc = "row"
    /\ IF Get(procs[p].report_id) # 0
       THEN /\ reports' = [i \in DOMAIN reports \ { procs[p].report_id } |-> reports[i]]
            /\ UNCHANGED photos
            /\ Answered(p, NoError)
       ELSE /\ UNCHANGED <<reports, photos>>
            /\ Answered(p, DeleteFailed)
    /\ UNCHANGED nextId
    /\ ServiceUnchanged

\* WasteReportRepository.delete in delete_waste_report, and the answer: the
\* report row goes and its photo rows with it (cascade); 500 when the row is
\* gone already
DeleteRow(p) ==
    /\ procs[p].pc = "row"
    /\ IF Get(procs[p].report_id) # 0
       THEN /\ reports' = [i \in DOMAIN reports \ { procs[p].report_id } |-> reports[i]]
            /\ photos' = { row \in photos : row.waste_report_id # procs[p].report_id }
            /\ Answered(p, NoError)
       ELSE /\ UNCHANGED <<reports, photos>>
            /\ Answered(p, DeleteFailed)
    /\ UNCHANGED nextId
    /\ ServiceUnchanged

NextApi ==
    \/ CreateReport
    \/ UpdateReport
    \/ DeleteReport
    \/ \E p \in DOMAIN procs : SavePhotos(p)
    \/ \E p \in DOMAIN procs : CommitPhotos(p)
    \/ \E p \in DOMAIN procs : RefreshReport(p)
    \/ \E p \in DOMAIN procs : DeleteFiles(p)
    \/ \E p \in DOMAIN procs : DeleteRow(p)

\* The database holds nothing, or it holds report 1, created earlier without
\* photos.
InitApi ==
    /\ fs = <<>>
    /\ dirs = {}
    /\ issued = 0
    /\ \/ reports = <<>> /\ nextId = [report |-> 1, photo |-> 1, request |-> 1]
       \/ /\ reports = [i \in { 1 } |-> [status |-> "pending", description |-> None]]
          /\ nextId = [report |-> 2, photo |-> 1, request |-> 1]
    /\ photos = {}
    /\ procs = <<>>
    /\ call = NoCall

\* The handlers serving up to MaxRequests requests, interleaved in every way.
SpecApi == InitApi /\ [][NextApi]_vars

-----------------------------------------------------------------------------
(* Properties *)

Last(seq) == seq[Len(seq)]

\* the error save_file raises on a candidate taken alone
ErrorAlone(file) == SaveFile(Store(<<>>, {}), file, 1, ToString(0), {}).err

\* a body that starts with the JPEG signature FF D8 FF or with the PNG
\* signature 89 50 4E 47 0D 0A 1A 0A
IsImageBody(content) ==
    \/ StartsWith(content.head, <<255, 216, 255>>)
    \/ StartsWith(content.head, <<137, 80, 78, 71, 13, 10, 26, 10>>)

HasAllowedExtension(file) ==
    /\ file.filename # <<>>
    /\ Lower(Suffix(file.filename)) \in
          { <<".", "j", "p", "g">>, <<".", "j", "p", "e", "g">>, <<".", "p", "n", "g">> }

HasAllowedType(file) == file.content_type \in { "image/jpeg", "image/png" }

\* the declared size is a number within the limit
DeclaresSizeWithinLimit(file) ==
    file.size.attr /\ ~file.size.none /\ file.size.n <= MAX_FILE_SIZE

\* a valid JPEG or PNG of at most 5 MiB with its name, type and size declared
IsValidCandidate(file) ==
    /\ HasAllowedExtension(file)
    /\ HasAllowedType(file)
    /\ DeclaresSizeWithinLimit(file)
    /\ file.content.len > 0
    /\ file.content.len <= MAX_FILE_SIZE
    /\ IsImageBody(file.content)

\* C1: when save_multiple_files fails on its Nth candidate, the files on disk
\* are those of before the call (every file the call wrote for candidates
\* 1..N-1 is gone, every earlier file is unchanged), no reference is returned
\* and the error raised is the one save_file raises on candidate N.
C1_BatchRollback ==
    [][ (/\ call'.op = "save_multiple_files"
         /\ call'.err # NoError
         /\ call'.examined # <<>>)
        => /\ fs' = fs
           /\ call'.refs = <<>>
           /\ call'.err = ErrorAlone(call'.files[Last(call'.examined)]) ]_vars

\* C1 witness: three valid candidates and a fourth that is plain text, sent to
\* a report whose directory already holds a file: the call has failed with
\* the fourth's error after drawing four names, and that file is still there.
C1_Witness ==
    /\ call.op = "save_multiple_files"
    /\ call.files = <<ValidJpeg, ValidPng, ValidJpeg, TextAsJpeg>>
    /\ call.err = InvalidImageContent
    /\ call.examined = <<1, 2, 3, 4>>
    /\ issued = 5
    /\ Cardinality(FilesIn(fs, ReportDir(call.report_id))) = 1

C3_Claimed ==
    [][ (/\ call'.op \in { "save_file", "save_multiple_files" }
         /\ call'.err # NoError
         /\ call'.bad # {}
         /\ call'.op = "save_multiple_files" => call'.examined # <<>>)
        => /\ call'.err =
                ErrorAlone(IF call'.op = "save_file" THEN call'.files[1]
                           ELSE call'.files[Last(call'.examined)])
           /\ \A q \in DOMAIN fs' \ DOMAIN fs : UuidOf(q) \in call'.bad ]_vars

\* C4: a batch of more than 10 candidates fails with the too-many-files error
\* (HTTP 400) before any candidate is examined: no file is written, no
\* directory is created and no name is generated.
C4_TooManyFiles ==
    [][ (call'.op = "save_multiple_files" /\ Len(call'.files) > 10)
        => /\ call'.err = TooManyFiles
           /\ call'.err.status_code = 400
           /\ call'.examined = <<>>
           /\ call'.refs = <<>>
           /\ fs' = fs
           /\ dirs' = dirs
           /\ issued' = issued ]_vars

\* C4 witness: a batch of 11 valid candidates has been refused.
C4_Witness ==
    /\ call.op = "save_multiple_files"
    /\ Len(call.files) = 11
    /\ \A i \in 1..11 : IsValidCandidate(call.files[i])
    /\ call.err = TooManyFiles

\* C5: for a batch of at most 10 candidates, all of them valid JPEG or PNG
\* files of at most 5 MiB, save_multiple_files returns one reference per
\* candidate, in candidate order, all distinct, each naming an existing file
\* whose content is its candidate's bytes and starts with an image signature.
C5_AllValidStored ==
    (/\ call.op = "save_multiple_files"
     /\ Len(call.files) <= 10
     /\ \A i \in 1..Len(call.files) : IsValidCandidate(call.files[i]))
    => /\ call.err = NoError
       /\ Len(call.refs) = Len(call.files)
       /\ \A i \in 1..Len(call.files) :
            /\ call.refs[i] \in DOMAIN fs
            /\ fs[call.refs[i]] = call.files[i].content
            /\ IsImageBody(fs[call.refs[i]])
            /\ Suffix(call.refs[i]) = Lower(Suffix(call.files[i].filename))
            /\ PathParent(call.refs[i]) = ReportDir(call.report_id)
       /\ \A i, j \in 1..Len(call.refs) : i # j => call.refs[i] # call.refs[j]

\* C5 witness: a batch of exactly 10 valid candidates has been stored.
C5_Witness ==
    /\ call.op = "save_multiple_files"
    /\ Len(call.files) = 10
    /\ \A i \in 1..10 : IsValidCandidate(call.files[i])
    /\ Len(call.refs) = 10
    /\ Cardinality(DOMAIN fs) >= 10

\* the candidate of a save_file call
Candidate(c) == c.files[1]

\* C6: a candidate that passes validate_file and whose written content is
\* empty, or does not start with the JPEG or the PNG signature, is rejected
\* with HTTP 400 (EmptyFile, respectively InvalidImageContent), and the files
\* on disk when save_file returns are those of before the call.
C6_BadContentRejected ==
    [][ (/\ call'.op = "save_file"
         /\ ValidateFile(Candidate(call')) = NoError
         /\ Candidate(call').content.len <= MAX_FILE_SIZE
         /\ (Candidate(call').content.len = 0 \/ ~IsImageBody(Candidate(call').content)))
        => /\ call'.err = IF Candidate(call').content.len = 0
                          THEN EmptyFile ELSE InvalidImageContent
           /\ call'.err.status_code = 400
           /\ call'.refs = <<>>
           /\ fs' = fs ]_vars

\* C6 witness: a candidate declared as a JPEG whose bytes are plain text has
\* been rejected after its file was written (its name was drawn and the
\* report's directory exists), and the store holds no file of that report
\* but the one it held before.
C6_Witness ==
    /\ call.op = "save_file"
    /\ HasAllowedExtension(Candidate(call))
    /\ Candidate(call).content_type = "image/jpeg"
    /\ Candidate(call).content = TextBody
    /\ call.err = InvalidImageContent
    /\ call.report_id = 2
    /\ ReportDir(2) \in dirs
    /\ FilesIn(fs, ReportDir(2)) = {}

\* C7 as claimed: a candidate whose extension is not .jpg, .jpeg or .png is
\* rejected with the unsupported-extension error whatever the size it
\* declares and whatever its content type, and nothing is written.
C7_Claimed ==
    [][ (/\ call'.op = "save_file"
         /\ Candidate(call').filename # <<>>
         /\ ~HasAllowedExtension(Candidate(call'))
         /\ Candidate(call').size.attr
         /\ ~Candidate(call').size.none)
        => /\ call'.err = UnsupportedExtension
           /\ fs' = fs ]_vars

\* C7 as amended: a candidate with a name whose extension is not .jpg, .jpeg
\* or .png (compared in lower case) is never stored, whatever its declared
\* size, content type and content: save_file fails before anything is
\* written (no file, no directory, no name drawn). The error is the
\* unsupported-extension error when the declared size is missing or within
\* the limit, and the size error (413) when the declared size is over it.
C7_BadExtensionRejected ==
    [][ (/\ call'.op = "save_file"
         /\ Candidate(call').filename # <<>>
         /\ ~HasAllowedExtension(Candidate(call')))
        => /\ call'.err # NoError
           /\ call'.refs = <<>>
           /\ fs' = fs
           /\ dirs' = dirs
           /\ issued' = issued
           /\ (~Candidate(call').size.attr \/ DeclaresSizeWithinLimit(Candidate(call')))
                => (call'.err = UnsupportedExtension /\ call'.err.status_code = 400)
           /\ (/\ Candidate(call').size.attr
               /\ ~Candidate(call').size.none
               /\ Candidate(call').size.n > MAX_FILE_SIZE)
                => (call'.err = SizeExceeded /\ call'.err.status_code = 413) ]_vars

\* C7 witness: a .gif candidate with an allowed content type and valid image
\* bytes has been rejected for its extension, the report's directory not
\* having been created.
C7_Witness ==
    /\ call.op = "save_file"
    /\ Candidate(call).filename = <<"d", ".", "g", "i", "f">>
    /\ Candidate(call).content_type = "image/jpeg"
    /\ Candidate(call).content = JpegBody
    /\ call.err = UnsupportedExtension
    /\ ReportDir(call.report_id) \notin dirs

\* C8: a candidate that gets as far as the content-type check (its declared
\* size is missing or within the limit, its name is absent or has an allowed
\* extension) and whose content type is not image/jpeg or image/png, an
\* absent one included, is rejected with the unsupported-media-type error
\* (HTTP 400) and no I/O is done for it: no file is written, no directory is
\* created and no name is drawn.
C8_BadTypeRejected ==
    [][ (/\ call'.op = "save_file"
         /\ ~HasAllowedType(Candidate(call'))
         /\ (~Candidate(call').size.attr \/ DeclaresSizeWithinLimit(Candidate(call')))
         /\ (Candidate(call').filename = <<>> \/ HasAllowedExtension(Candidate(call'))))
        => /\ call'.err = UnsupportedMediaType
           /\ call'.err.status_code = 400
           /\ call'.refs = <<>>
           /\ fs' = fs
           /\ dirs' = dirs
           /\ issued' = issued ]_vars

\* C8 witness: a candidate with no content type, an allowed extension and
\* valid image bytes has been rejected for its type, the directory of its
\* report not having been created.
C8_Witness ==
    /\ call.op = "save_file"
    /\ Candidate(call).content_type = None
    /\ HasAllowedExtension(Candidate(call))
    /\ IsImageBody(Candidate(call).content)
    /\ call.err = UnsupportedMediaType
    /\ ReportDir(call.report_id) \notin dirs

\* C9: a candidate that passes validate_file (so its declared size, if any,
\* is within the limit) and whose content is longer than MAX_FILE_SIZE is
\* rejected with the size error (HTTP 413), and the files on disk when
\* save_file returns are those of before the call: the file opened for it
\* is gone.
C9_OversizeContentRejected ==
    [][ (/\ call'.op = "save_file"
         /\ ValidateFile(Candidate(call')) = NoError
         /\ Candidate(call').content.len > 5 * 1024 * 1024)
        => /\ call'.err = SizeExceeded
           /\ call'.err.status_code = 413
           /\ call'.refs = <<>>
           /\ fs' = fs ]_vars

\* C9 witness: a candidate declaring 4 bytes and carrying one byte more than
\* 5 MiB of JPEG has been rejected with 413 after its file was opened (the
\* directory of its report was created for it), and that directory is empty.
C9_Witness ==
    /\ call.op = "save_file"
    /\ Candidate(call).size = SizeOf(4)
    /\ Candidate(call).content = BigJpegBody
    /\ call.err.status_code = 413
    /\ call.report_id = 2
    /\ ReportDir(2) \in dirs
    /\ FilesIn(fs, ReportDir(2)) = {}

\* C10 as claimed: a candidate that declares no size (the attribute is
\* missing, or it is None) and has an allowed extension, an allowed content
\* type and valid image content of at most 5 MiB is accepted by save_file.
C10_Claimed ==
    (/\ call.op = "save_file"
     /\ (~Candidate(call).size.attr \/ Candidate(call).size.none)
     /\ HasAllowedExtension(Candidate(call))
     /\ HasAllowedType(Candidate(call))
     /\ Candidate(call).content.len > 0
     /\ Candidate(call).content.len <= MAX_FILE_SIZE
     /\ IsImageBody(Candidate(call).content))
    => /\ call.err = NoError
       /\ Len(call.refs) = 1
       /\ call.refs[1] \in DOMAIN fs

\* the index of the first named candidate of a batch that save_file rejects
\* when it is taken alone; Len(files) + 1 when there is none
FirstFailing(files) ==
    LET failing == { i \in 1..Len(files) :
                       Truthy(files[i].filename) /\ ErrorAlone(files[i]) # NoError }
    IN  IF failing = {} THEN Len(files) + 1
        ELSE CHOOSE i \in failing : \A j \in failing : i <= j

\* the named candidates of a batch up to n, in the order of the batch
NamedUpTo(files, n) ==
    SelectSeq([i \in 1..n |-> i], LAMBDA i : Truthy(files[i].filename))

\* save_file gets as far as generating a name for the candidate
ReachesNaming(file) == SaveFile(Store(<<>>, {}), file, 1, ToString(0), {}).drew

\* C11: the candidates of one save_multiple_files call are handed to
\* save_file one after the other in the order of the batch, and the call is
\* fail-fast: when candidate N fails, the candidates examined are exactly the
\* named candidates up to N, names were generated for those only, and nothing
\* of a candidate after N is written.
C11_FailFast ==
    [][ (/\ call'.op = "save_multiple_files"
         /\ call'.err # NoError
         /\ call'.examined # <<>>)
        => LET files == call'.files
               N == FirstFailing(files)
           IN  /\ N <= Len(files)
               /\ call'.examined = NamedUpTo(files, N)
               /\ issued' - issued =
                     Cardinality({ i \in 1..N : /\ Truthy(files[i].filename)
                                                /\ ReachesNaming(files[i]) })
               /\ DOMAIN fs' = DOMAIN fs
               /\ dirs' = dirs \cup { ReportDir(call'.report_id) : x \in
                                        { i \in 1..N : /\ Truthy(files[i].filename)
                                                       /\ ReachesNaming(files[i]) } } ]_vars

\* C11 witness: a batch of a valid candidate, one of plain text and one more
\* valid candidate has failed on the second: two candidates were examined and
\* two names generated, and the third was never looked at.
C11_Witness ==
    /\ call.op = "save_multiple_files"
    /\ call.files = <<ValidJpeg, TextAsJpeg, ValidPng>>
    /\ call.err = InvalidImageContent
    /\ call.examined = <<1, 2>>
    /\ issued = 2
    /\ fs = <<>>

\* request p has taken a step
Stepped(p) == p \notin DOMAIN procs' \/ procs'[p] # procs[p]

\* C12: when save_multiple_files fails inside create_waste_report or
\* update_waste_report, the handler swallows the error and goes on to its
\* answer without committing any WastePhoto row: the step leaves the photo
\* rows and the report row (with the fields an update has written) as they
\* are, and the handler then answers with success; its answer is an error
\* only if the report has been deleted meanwhile.
C12_FailedUploadSwallowed ==
    [][ \A p \in DOMAIN procs :
          /\ (/\ procs[p].pc = "save"
              /\ Stepped(p)
              /\ FirstFailing(procs[p].photos) <= Len(procs[p].photos))
             => /\ p \in DOMAIN procs'
                /\ procs'[p].pc = "refresh"
                /\ procs'[p].swallowed = ErrorAlone(procs[p].photos[FirstFailing(procs[p].photos)])
                /\ procs'[p].photo_urls = <<>>
                /\ photos' = photos
                /\ reports' = reports
                /\ call' = call
          /\ (/\ procs[p].pc = "refresh"
              /\ Stepped(p)
              /\ FirstFailing(procs[p].photos) <= Len(procs[p].photos))
             => /\ photos' = photos
                /\ reports' = reports
                /\ call'.op = procs[p].op
                /\ Get(procs[p].report_id) # 0 => call'.err = NoError ]_vars

\* C12 witness: an update that edited the description of its report and sent
\* a valid photo followed by one of plain text has been answered with
\* success: the description is kept, the report has no photo row and no file.
C12_Witness ==
    /\ call.op = "update"
    /\ call.files = <<ValidPng, TextAsJpeg>>
    /\ call.err = NoError
    /\ call.report_id \in DOMAIN reports
    /\ reports[call.report_id].description = "edited"
    /\ photos = {}
    /\ fs = <<>>
    /\ issued = 2

\* C13 as claimed: when a create or update request with photos is answered
\* and no other request on its report is under way, every file in the
\* directory of the report is named by a committed WastePhoto row of that
\* report; a file save_multiple_files wrote does not stay when create_multiple
\* failed to persist its rows.
C13_Claimed ==
    [][ \A p \in DOMAIN procs :
          (/\ procs[p].op \in { "create", "update" }
           /\ HasPhotos(procs[p].photos)
           /\ p \notin DOMAIN procs'
           /\ \A q \in DOMAIN procs' : procs'[q].report_id # procs[p].report_id)
          => \A path \in FilesIn(fs', ReportDir(procs[p].report_id)) :
                \E row \in photos' : /\ row.photo_url = path
                                     /\ row.waste_report_id = procs[p].report_id ]_vars

\* a delete_waste_report request has been answered with success in this step
DeleteSucceeds(p) ==
    /\ procs[p].op = "delete"
    /\ p \notin DOMAIN procs'
    /\ call'.err = NoError

\* C14 as claimed: after a delete_waste_report request has succeeded, no
\* report row, no WastePhoto row of the report and no file in the directory
\* of the report remains.
C14_Claimed ==
    [][ \A p \in DOMAIN procs :
          DeleteSucceeds(p)
          => /\ procs[p].report_id \notin DOMAIN reports'
             /\ \A row \in photos' : row.waste_report_id # procs[p].report_id
             /\ FilesIn(fs', ReportDir(procs[p].report_id)) = {} ]_vars

\* C14, amended: delete_waste_report runs delete_report_files, which empties
\* and removes the directory of the report, before it deletes the report
\* row: a report row is only ever removed by a delete request that has done
\* so. After a successful delete request no report row and no WastePhoto row
\* of the report remains, and no file remains in its directory unless a
\* concurrent upload has stored files there after delete_report_files ran.
C14_FilesThenRow ==
    [][ /\ \A r \in DOMAIN reports \ DOMAIN reports' :
              \E p \in DOMAIN procs : /\ procs[p].op = "delete"
                                      /\ procs[p].pc = "row"
                                      /\ procs[p].report_id = r
                                      /\ DeleteSucceeds(p)
        /\ \A p \in DOMAIN procs :
              /\ (procs[p].pc = "files" /\ Stepped(p))
                 => /\ procs'[p].pc = "row"
                    /\ FilesIn(fs', ReportDir(procs[p].report_id)) = {}
                    /\ ReportDir(procs[p].report_id) \notin dirs'
                    /\ reports' = reports /\ photos' = photos
              /\ DeleteSucceeds(p)
                 => /\ procs[p].report_id \notin DOMAIN reports'
                    /\ \A row \in photos' : row.waste_report_id # procs[p].report_id
                    /\ ~procs[p].refilled
                       => FilesIn(fs', ReportDir(procs[p].report_id)) = {} ]_vars

\* C14 witness: report 1 had two photos, with their files and rows, and a
\* delete request on it has succeeded: the report, the rows and the files are
\* gone.
C14_Witness ==
    /\ call.op = "delete"
    /\ call.err = NoError
    /\ call.report_id = 1
    /\ issued = 2
    /\ nextId.photo = 3
    /\ reports = <<>>
    /\ photos = {}
    /\ fs = <<>>
    /\ dirs = {}

\* C15: delete_report_files(report_id) removes every file in the directory of
\* the report and the directory itself, and leaves every file and every
\* directory of the other reports as they are.
C15_DeleteReportFilesFrame ==
    [][ call'.op = "delete_report_files"
        => LET report_dir == ReportDir(call'.report_id)
           IN  /\ FilesIn(fs', report_dir) = {}
               /\ report_dir \notin dirs'
               /\ dirs' = dirs \ { report_dir }
               /\ DOMAIN fs' = DOMAIN fs \ FilesIn(fs, report_dir)
               /\ \A q \in DOMAIN fs' : fs'[q] = fs[q] ]_vars

\* C15 witness: delete_report_files(1) has removed the one file of report 1
\* and its directory, and the file and the directory of report 2 are there.
C15_Witness ==
    /\ call.op = "delete_report_files"
    /\ call.report_id = 1
    /\ Len(call.refs) = 1
    /\ fs # <<>>
    /\ DOMAIN fs = FilesIn(fs, ReportDir(2))
    /\ dirs = { ReportDir(2) }

\* C16: delete_file and delete_report_files never raise, whichever unlink
\* fails; called on a file, respectively on a report directory, that does
\* not exist they return without error and change nothing.
C16_DeleteNeverRaises ==
    [][ /\ call'.op \in { "delete_file", "delete_report_files" }
           => call'.err = NoError
        /\ (call'.op = "delete_file" /\ ~Exists(fs, call'.path))
           => fs' = fs /\ dirs' = dirs
        /\ (call'.op = "delete_file" /\ Exists(fs, call'.path))
           => /\ dirs' = dirs
              /\ DOMAIN fs' = IF UnlinkFails(call'.path, call'.bad) THEN DOMAIN fs
                              ELSE DOMAIN fs \ { call'.path }
        /\ (call'.op = "delete_report_files" /\ ReportDir(call'.report_id) \notin dirs)
           => fs' = fs /\ dirs' = dirs ]_vars

\* C16 witness: delete_file has been called on a file whose unlink fails: it
\* returned without error and the file is still there.
C16_Witness ==
    /\ call.op = "delete_file"
    /\ call.bad # {}
    /\ call.err = NoError
    /\ Exists(fs, call.path)

\* C16, second case reached: delete_report_files has been called on a report
\* whose directory holds a file that cannot be unlinked, and has returned.
C16_StuckDirectory ==
    /\ call.op = "delete_report_files"
    /\ call.bad # {}
    /\ call.err = NoError
    /\ ReportDir(call.report_id) \in dirs

\* the identifiers uuid4 has handed out from the m-th to the n-th
Issued(m, n) == { ToString(k) : k \in m..n }

\* C17: generated names never collide. The references a call of save_file or
\* save_multiple_files returns are distinct from one another, each is built
\* on an identifier handed out during the call (so it differs from every
\* reference returned before, whose identifiers were handed out earlier),
\* none names a file that existed before the call, and the call leaves every
\* earlier file and its content as it was.
C17_NamesNeverCollide ==
    [][ (call'.op \in { "save_file", "save_multiple_files" } /\ call'.err = NoError)
        => /\ \A i, j \in 1..Len(call'.refs) :
                 i # j => call'.refs[i] # call'.refs[j]
           /\ \A i \in 1..Len(call'.refs) :
                 /\ UuidOf(call'.refs[i]) \in Issued(issued + 1, issued')
                 /\ ~Exists(fs, call'.refs[i])
                 /\ Exists(fs', call'.refs[i])
           /\ \A q \in DOMAIN fs : Exists(fs', q) /\ fs'[q] = fs[q]
           /\ \A q \in DOMAIN fs : UuidOf(q) \in Issued(1, issued) ]_vars

\* C17 witness: a second call has stored three more files for a report that
\* held one already; its directory holds four files.
C17_Witness ==
    /\ call.op = "save_multiple_files"
    /\ call.err = NoError
    /\ Len(call.refs) = 3
    /\ issued = 4
    /\ Cardinality(FilesIn(fs, ReportDir(call.report_id))) = 4

\* str.split("/"): the segments of a path
RECURSIVE Split(_)
Split(s) ==
    LET i == IF \E k \in 1..Len(s) : s[k] = "/"
             THEN CHOOSE k \in 1..Len(s) : s[k] = "/" /\ \A j \in 1..(k - 1) : s[j] # "/"
             ELSE 0
    IN  IF i = 0 THEN <<s>>
        ELSE <<SubSeq(s, 1, i - 1)>> \o Split(SubSeq(s, i + 1, Len(s)))

\* int(): the report identifier a segment spells, -1 when it spells none
IntOf(segment) ==
    IF Len(segment) = 1 /\ \E n \in ReportIds : ToString(n) = segment[1]
    THEN CHOOSE n \in ReportIds : ToString(n) = segment[1]
    ELSE -1

\* C18: the reference save_file returns has the form
\* <upload-root>/<report_id>/<generated-name>: its segments are those of
\* uploads/waste-reports, then one that spells the report_id passed to the
\* call, then one name; and it is the path of the one file the call has
\* written, which holds the bytes of the candidate.
C18_ReferenceRoundTrips ==
    [][ (call'.op = "save_file" /\ call'.err = NoError)
        => /\ Len(call'.refs) = 1
           /\ LET ref == call'.refs[1]
                  segments == Split(ref)
              IN  /\ Len(segments) = 4
                  /\ <<segments[1], segments[2]>> = <<<<"uploads">>, <<"waste-reports">>>>
                  /\ IntOf(segments[3]) = call'.report_id
                  /\ segments[4] # <<>>
                  /\ DOMAIN fs' = DOMAIN fs \cup { ref }
                  /\ ref \notin DOMAIN fs
                  /\ fs'[ref] = Candidate(call').content
                  /\ PathParent(ref) \in dirs' ]_vars

\* C18 witness: a valid PNG declared as ../x.png has been stored for report 2
\* in a store that held a file of report 1.
C18_Witness ==
    /\ call.op = "save_file"
    /\ call.err = NoError
    /\ call.report_id = 2
    /\ Candidate(call).filename = <<".", ".", "/", "x", ".", "p", "n", "g">>
    /\ Cardinality(DOMAIN fs) = 2
    /\ Split(call.refs[1])[3] = <<"2">>

\* the last n characters of a declared file name, lower-cased
LowerTail(filename, n) == Lower(SubSeq(filename, Len(filename) - n + 1, Len(filename)))

\* C19: the file save_file stores lies directly in the directory of its
\* report, and its name is the identifier drawn for it followed by an
\* extension that is one of .jpg, .jpeg, .png and is the lower-cased end of
\* the declared file name; nothing else of the declared name is in the path.
C19_StoredNameForm ==
    [][ (call'.op = "save_file" /\ call'.err = NoError)
        => LET path == call'.refs[1]
               name == PathName(path)
               ext == Tail(name)
               declared == Candidate(call').filename
           IN  /\ path \in DOMAIN fs'
               /\ PathParent(path) = ReportDir(call'.report_id)
               /\ path = UPLOAD_DIR \o <<"/", ToString(call'.report_id), "/">> \o name
               /\ Head(name) = ToString(issued')
               /\ issued' = issued + 1
               /\ ext \in { <<".", "j", "p", "g">>, <<".", "j", "p", "e", "g">>,
                            <<".", "p", "n", "g">> }
               /\ declared # <<>>
                  => /\ Len(ext) < Len(declared)
                     /\ LowerTail(declared, Len(ext)) = ext ]_vars

\* C19 witness: a candidate declared as a.JPG has been stored as 2.jpg in the
\* directory of report 1, next to the file that was there.
C19_Witness ==
    /\ call.op = "save_file"
    /\ call.err = NoError
    /\ Candidate(call).filename = <<"a", ".", "J", "P", "G">>
    /\ call.refs[1] = ReportDir(1) \o <<"/", "2", ".", "j", "p", "g">>
    /\ Cardinality(FilesIn(fs, ReportDir(1))) = 2

\* C20 as claimed: a candidate of a batch that declares no file name and has
\* an allowed content type and valid image content is stored by
\* save_multiple_files under a generated name with the extension .jpg of the
\* default name, and the sequence returned has its reference in the
\* candidate's place.
C20_Claimed ==
    (/\ call.op = "save_multiple_files"
     /\ call.err = NoError
     /\ \A i \in 1..Len(call.files) :
           \/ IsValidCandidate(call.files[i])
           \/ /\ call.files[i].filename = <<>>
              /\ HasAllowedType(call.files[i])
              /\ IsImageBody(call.files[i].content))
    => /\ Len(call.refs) = Len(call.files)
       /\ \A i \in 1..Len(call.files) :
             call.files[i].filename = <<>>
             => /\ Exists(fs, call.refs[i])
                /\ Tail(PathName(call.refs[i])) = <<".", "j", "p", "g">>

-----------------------------------------------------------------------------
(* Users, ownership and moderation: the dependencies of core/dependencies.py
   in front of the handlers. In the specifications below a report row carries
   user_id, status, description, admin_notes and created_at (a day number), a
   request carries the user who sent it, and nextId.today is the calendar day
   of the servers. *)

\* MAX_REPORTS_PER_DAY
MAX_REPORTS_PER_DAY == 10

\* the days the clock shows
MaxDays == 2

\* users.id of the accounts; account 3 has is_superuser set
Users == { 1, 2, 3 }

\* current_user.is_superuser
is_superuser(user) == user = 3

\* ReportStatus
ReportStatus == { "pending", "approved", "rejected", "completed" }

\* the admin_notes sent with a status update; None when the field is not sent
AdminNotes == { None, "seen" }

\* WasteReportRepository.create: the row it commits; status takes the column
\* default, admin_notes is NULL
WasteReport(user_id, description, created_at) ==
    [user_id |-> user_id, status |-> "pending", description |-> description,
     admin_notes |-> None, created_at |-> created_at]

\* a request of a user: Request with the sender and the description sent
UserRequest(user, op, pc, report_id, files, description) ==
    Request(op, pc, report_id, files) @@ [user |-> user, description |-> description]

\* the answer to a request of a user; items is what a successful read returns
Reply(op, user, report_id, err, items) ==
    Response(op, report_id, <<>>, err) @@ [user |-> user, items |-> items]

\* the report table with one more row
Insert(id, row) ==
    [i \in DOMAIN reports \cup { id } |-> IF i = id THEN row ELSE reports[i]]

\* WasteReportRepository.count_user_reports_today
CountUserReportsToday(user_id) ==
    Cardinality({ i \in DOMAIN reports : /\ reports[i].user_id = user_id
                                         /\ reports[i].created_at = nextId.today })

RateLimited ==
    HTTPException(429, "Daily limit of 10 waste reports exceeded. Please try again tomorrow.")

\* The photos sent with a create request
LimitBatches == { <<>>, <<ValidPng>> }

\* check_rate_limit in front of create_waste_report: 429 when the user has
\* MAX_REPORTS_PER_DAY reports today, otherwise the request goes on to the
\* handler
CheckRateLimit(user, files) ==
    /\ nextId.request <= MaxRequests
    /\ IF CountUserReportsToday(user) >= MAX_REPORTS_PER_DAY
       THEN /\ call' = Reply("create", user, 0, RateLimited, <<>>)
            /\ UNCHANGED procs
       ELSE /\ Arrives(UserRequest(user, "create", "create", 0, files, None))
            /\ UNCHANGED call
    /\ nextId' = [nextId EXCEPT !.request = @ + 1]
    /\ UNCHANGED <<reports, photos>>
    /\ ServiceUnchanged

\* create_waste_report up to its call of save_multiple_files: the report row
\* is committed for current_user, created_at is the day of the insert
CreateRow(p) ==
    /\ procs[p].pc = "create"
    /\ reports' = Insert(nextId.report, WasteReport(procs[p].user, None, nextId.today))
    /\ nextId' = [nextId EXCEPT !.report = @ + 1]
    /\ procs' = [procs EXCEPT ![p].report_id = nextId.report,
                              ![p].pc = IF HasPhotos(procs[p].photos)
                                        THEN "save" ELSE "refresh"]
    /\ UNCHANGED <<photos, call>>
    /\ ServiceUnchanged

\* the calendar day changes
Midnight ==
    /\ nextId.today < MaxDays
    /\ nextId' = [nextId EXCEPT !.today = @ + 1]
    /\ UNCHANGED <<reports, photos, procs, call>>
    /\ ServiceUnchanged

NextLimit ==
    \/ \E user \in Users, files \in LimitBatches : CheckRateLimit(user, files)
    \/ Midnight
    \/ \E p \in DOMAIN procs : CreateRow(p)
    \/ \E p \in DOMAIN procs : SavePhotos(p)
    \/ \E p \in DOMAIN procs : CommitPhotos(p)
    \/ \E p \in DOMAIN procs : RefreshReport(p)

\* User 1 has created one report less than the daily limit, or as many as the
\* limit, today, without photos.
InitLimit ==
    /\ fs = <<>>
    /\ dirs = {}
    /\ issued = 0
    /\ \E n \in { MAX_REPORTS_PER_DAY - 1, MAX_REPORTS_PER_DAY } :
          /\ reports = [i \in 1..n |-> WasteReport(1, None, 1)]
          /\ nextId = [report |-> n + 1, photo |-> 1, request |-> 1, today |-> 1]
    /\ photos = {}
    /\ procs = <<>>
    /\ call = NoCall

\* Create requests of the users near the daily limit, interleaved in every way.
SpecLimit == InitLimit /\ [][NextLimit]_vars

\* the reports user_id created on day
CreatedOn(user_id, day) ==
    { i \in DOMAIN reports : reports[i].user_id = user_id /\ reports[i].created_at = day }

\* C21 as claimed: whatever the interleaving of the create requests, no user
\* owns more than MAX_REPORTS_PER_DAY reports created on the same calendar day.
C21_Claimed ==
    \A user \in Users, day \in 1..MaxDays :
        Cardinality(CreatedOn(user, day)) <= MAX_REPORTS_PER_DAY

\* C21, the part that holds: a create request that arrives when its user has
\* MAX_REPORTS_PER_DAY reports today is answered 429, and that answer creates
\* no row and writes no file.
C21_RejectedAtLimit ==
    [][ /\ (\E user \in Users :
              /\ CountUserReportsToday(user) >= MAX_REPORTS_PER_DAY
              /\ nextId'.request # nextId.request
              /\ procs' = procs
              /\ call'.user = user)
           => (call'.err = RateLimited /\ UNCHANGED <<reports, photos, fs, dirs>>)
        /\ (call' # call /\ call'.err = RateLimited)
           => (/\ UNCHANGED <<reports, photos, fs, dirs, procs>>
               /\ CountUserReportsToday(call'.user) >= MAX_REPORTS_PER_DAY) ]_vars

\* a request has been answered 429 while another one is past the check
C21_Witness ==
    /\ call.err = RateLimited
    /\ procs # <<>>

-----------------------------------------------------------------------------
(* The owner-facing handlers behind their permission dependencies, and the
   admin status update. A dependency and the handler it guards are separate
   steps: other requests run between them. *)

EditForbidden == HTTPException(403, "You can only edit your own pending waste reports")
DeleteForbidden == HTTPException(403, "You can only delete your own pending waste reports")
AccessForbidden == HTTPException(403, "You can only access your own waste reports")
AdminRequired == HTTPException(403, "Not enough permissions. Admin access required.")

\* The photos sent with an update request
AccessBatches == { <<>>, <<ValidPng>> }

\* a permission query that does not look at the status
CanUserEditAnyStatus(report_id, user_id) ==
    /\ report_id \in DOMAIN reports
    /\ reports[report_id].user_id = user_id

\* WasteReportRepository.can_user_edit, and can_user_delete which calls it
CanUserEdit(report_id, user_id) ==
    /\ report_id \in DOMAIN reports
    /\ reports[report_id].user_id = user_id
    /\ reports[report_id].status = "pending"

\* an ownership test that lets every user in
MayAccessAny(report_id, user) == TRUE

\* `report.user_id != current_user.id and not current_user.is_superuser`,
\* negated, in check_report_ownership
MayAccess(report_id, user) ==
    reports[report_id].user_id = user \/ is_superuser(user)

\* update_data of update_waste_report: the fields that were sent
UpdateData(description) ==
    IF description = None THEN <<>> ELSE [description |-> description]

\* a repository update that also puts the status back to its default
UpdateResetsStatus(db_waste_report, update_data) ==
    [field \in DOMAIN db_waste_report |->
       IF field \in DOMAIN update_data THEN update_data[field]
       ELSE IF field = "status" THEN "pending"
       ELSE db_waste_report[field]]

\* WasteReportRepository.update: setattr for every field of update_data
Update(db_waste_report, update_data) ==
    [field \in DOMAIN db_waste_report |->
       IF field \in DOMAIN update_data THEN update_data[field]
       ELSE db_waste_report[field]]

\* a status update that writes admin_notes whether or not they were sent
UpdateStatusWritesNotes(db_waste_report, status, admin_notes) ==
    [db_waste_report EXCEPT !.status = status, !.admin_notes = admin_notes]

\* WasteReportRepository.update_status
UpdateStatus(db_waste_report, status, admin_notes) ==
    [db_waste_report EXCEPT
        !.status = status,
        !.admin_notes = IF admin_notes # None THEN admin_notes ELSE @]

\* the report as a response shows it
Shown(report_id) == [id |-> report_id] @@ reports[report_id]

\* the sequences that hold every element of S once
Orderings(S) ==
    { seq \in [1..Cardinality(S) -> S] :
         \A i, j \in 1..Cardinality(S) : i # j => seq[i] # seq[j] }

\* getattr(WasteReport, sort_by, WasteReport.created_at), for the report i
SortColumn(sort_by, i) == IF sort_by = "id" THEN i ELSE reports[i].created_at

\* a listing that counts the rows after pagination
GetMultiCountsPage(user_id, skip, limit, status, sort_by, sort_order) ==
    { [items |-> SubSeq(seq, skip + 1, IF skip + limit < Len(seq) THEN skip + limit ELSE Len(seq)),
       total |-> Len(SubSeq(seq, skip + 1,
                            IF skip + limit < Len(seq) THEN skip + limit ELSE Len(seq)))] :
      seq \in { s \in Orderings({ i \in DOMAIN reports :
                                    /\ reports[i].user_id = user_id
                                    /\ status = None \/ reports[i].status = status }) :
                \A i, j \in 1..Len(s) :
                   i < j => IF sort_order = "desc"
                            THEN SortColumn(sort_by, s[i]) >= SortColumn(sort_by, s[j])
                            ELSE SortColumn(sort_by, s[i]) <= SortColumn(sort_by, s[j]) } }

\* WasteReportRepository.get_multi_by_user: the (items, total) it can return.
\* Rows with equal sort keys come in an order the database chooses.
GetMultiByUser(user_id, skip, limit, status, sort_by, sort_order) ==
    { [items |-> SubSeq(seq, skip + 1, IF skip + limit < Len(seq) THEN skip + limit ELSE Len(seq)),
       total |-> Len(seq)] :
      seq \in { s \in Orderings({ i \in DOMAIN reports :
                                    /\ reports[i].user_id = user_id
                                    /\ status = None \/ reports[i].status = status }) :
                \A i, j \in 1..Len(s) :
                   i < j => IF sort_order = "desc"
                            THEN SortColumn(sort_by, s[i]) >= SortColumn(sort_by, s[j])
                            ELSE SortColumn(sort_by, s[i]) <= SortColumn(sort_by, s[j]) } }

\* the request of a user is answered
AnsweredUser(p, err, items) ==
    /\ procs' = [q \in DOMAIN procs \ { p } |-> procs[q]]
    /\ call' = Reply(procs[p].op, procs[p].user, procs[p].report_id, err, items)

\* check_edit_permission in front of update_waste_report
CheckEditPermission(user, report_id, files, description) ==
    /\ nextId.request <= MaxRequests
    /\ IF is_superuser(user) \/ CanUserEdit(report_id, user)
       THEN /\ Arrives(UserRequest(user, "update", "update", report_id, files, description))
            /\ UNCHANGED call
       ELSE /\ call' = Reply("update", user, report_id, EditForbidden, <<>>)
            /\ UNCHANGED procs
    /\ nextId' = [nextId EXCEPT !.request = @ + 1]
    /\ UNCHANGED <<reports, photos>>
    /\ ServiceUnchanged

\* update_waste_report up to its call of save_multiple_files: 404 when the
\* report is not there, otherwise the fields sent are written and committed
UpdateFields(p) ==
    /\ procs[p].pc = "update"
    /\ IF Get(procs[p].report_id) = 0
       THEN /\ AnsweredUser(p, NotFound, <<>>)
            /\ UNCHANGED reports
       ELSE /\ reports' = IF UpdateData(procs[p].description) = <<>> THEN reports
                          ELSE [reports EXCEPT ![procs[p].report_id] =
                                   Update(@, UpdateData(procs[p].description))]
            /\ procs' = [procs EXCEPT ![p].pc = IF HasPhotos(procs[p].photos)
                                                THEN "save" ELSE "refresh"]
            /\ UNCHANGED call
    /\ UNCHANGED <<photos, nextId>>
    /\ ServiceUnchanged

\* check_delete_permission in front of delete_waste_report
CheckDeletePermission(user, report_id) ==
    /\ nextId.request <= MaxRequests
    /\ IF is_superuser(user) \/ CanUserEdit(report_id, user)
       THEN /\ Arrives(UserRequest(user, "delete", "delete", report_id, <<>>, None))
            /\ UNCHANGED call
       ELSE /\ call' = Reply("delete", user, report_id, DeleteForbidden, <<>>)
            /\ UNCHANGED procs
    /\ nextId' = [nextId EXCEPT !.request = @ + 1]
    /\ UNCHANGED <<reports, photos>>
    /\ ServiceUnchanged

\* delete_waste_report up to its call of delete_report_files
DeleteGet(p) ==
    /\ procs[p].pc = "delete"
    /\ IF Get(procs[p].report_id) = 0
       THEN AnsweredUser(p, NotFound, <<>>)
       ELSE /\ procs' = [procs EXCEPT ![p].pc = "files"]
            /\ UNCHANGED call
    /\ UNCHANGED <<reports, photos, nextId>>
    /\ ServiceUnchanged

\* check_report_ownership in front of get_waste_report
CheckReportOwnership(user, report_id) ==
    /\ nextId.request <= MaxRequests
    /\ IF Get(report_id) = 0
       THEN /\ call' = Reply("get", user, report_id, NotFound, <<>>)
            /\ UNCHANGED procs
       ELSE IF ~MayAccess(report_id, user)
       THEN /\ call' = Reply("get", user, report_id, AccessForbidden, <<>>)
            /\ UNCHANGED procs
       ELSE /\ Arrives(UserRequest(user, "get", "get", report_id, <<>>, None))
            /\ UNCHANGED call
    /\ nextId' = [nextId EXCEPT !.request = @ + 1]
    /\ UNCHANGED <<reports, photos>>
    /\ ServiceUnchanged

\* get_waste_report
GetWasteReport(p) ==
    /\ procs[p].pc = "get"
    /\ IF Get(procs[p].report_id) = 0
       THEN AnsweredUser(p, NotFound, <<>>)
       ELSE AnsweredUser(p, NoError, << Shown(procs[p].report_id) >>)
    /\ UNCHANGED <<reports, photos, nextId>>
    /\ ServiceUnchanged

\* `size: int = Query(20, ge=1, le=100)`
MaxPageSize == 100

\* the query of a listing: page, size, the status filter (None for no
\* filter), sort_by and sort_order
Query(page, size, status, sort_by, sort_order) ==
    [page |-> page, size |-> size, status |-> status, sort_by |-> sort_by,
     sort_order |-> sort_order]

\* the query get_waste_reports takes when the request names no parameter
DefaultQuery == Query(1, 20, None, "created_at", "desc")

\* math.ceil(total / size)
Ceil(total, size) == (total + size - 1) \div size

\* the answer to a listing: the query with the items, total and pages
ListReply(user, query, err, items, total, pages) ==
    Reply("list", user, 0, err, items) @@ query @@ [total |-> total, pages |-> pages]

\* page or size is out of range
QueryInvalid == [exc |-> "RequestValidationError", status_code |-> 422, detail |-> "query"]

\* get_waste_reports
GetWasteReports(user, query) ==
    /\ nextId.request <= MaxRequests
    /\ IF query.page < 1 \/ query.size < 1 \/ query.size > MaxPageSize
       THEN call' = ListReply(user, query, QueryInvalid, <<>>, 0, 0)
       ELSE \E r \in GetMultiByUser(user, (query.page - 1) * query.size, query.size,
                                    query.status, query.sort_by, query.sort_order) :
               call' = ListReply(user, query, NoError,
                                 [k \in 1..Len(r.items) |-> Shown(r.items[k])],
                                 r.total,
                                 IF r.total > 0 THEN Ceil(r.total, query.size) ELSE 1)
    /\ nextId' = [nextId EXCEPT !.request = @ + 1]
    /\ UNCHANGED <<reports, photos, procs>>
    /\ ServiceUnchanged

\* the answer to a status update, with the status_update that was sent and
\* the report as it was when the request arrived (<<>> when it was not there)
StatusReply(user, report_id, status, admin_notes, err, items) ==
    Reply("status", user, report_id, err, items)
       @@ [status |-> status, admin_notes |-> admin_notes,
           was |-> IF Get(report_id) = 0 THEN <<>> ELSE << reports[report_id] >>]

\* update_waste_report_status behind get_current_admin_user
UpdateWasteReportStatus ==
    \E user \in Users, report_id \in ReportIds, status \in ReportStatus,
       admin_notes \in AdminNotes :
    /\ nextId.request <= MaxRequests
    /\ IF ~is_superuser(user)
       THEN /\ call' = Reply("status", user, report_id, AdminRequired, <<>>)
            /\ UNCHANGED reports
       ELSE IF Get(report_id) = 0
       THEN /\ call' = StatusReply(user, report_id, status, admin_notes, NotFound, <<>>)
            /\ UNCHANGED reports
       ELSE /\ reports' = [reports EXCEPT ![report_id] = UpdateStatus(@, status, admin_notes)]
            /\ call' = StatusReply(user, report_id, status, admin_notes, NoError,
                                   << Shown(report_id)' >>)
    /\ nextId' = [nextId EXCEPT !.request = @ + 1]
    /\ UNCHANGED <<photos, procs>>
    /\ ServiceUnchanged

NextAccess ==
    \/ \E user \in Users, report_id \in ReportIds, files \in AccessBatches,
          description \in Descriptions :
             CheckEditPermission(user, report_id, files, description)
    \/ \E user \in Users, report_id \in ReportIds : CheckDeletePermission(user, report_id)
    \/ \E user \in Users, report_id \in ReportIds : CheckReportOwnership(user, report_id)
    \/ \E user \in Users : GetWasteReports(user, DefaultQuery)
    \/ UpdateWasteReportStatus
    \/ \E p \in DOMAIN procs : UpdateFields(p)
    \/ \E p \in DOMAIN procs : DeleteGet(p)
    \/ \E p \in DOMAIN procs : GetWasteReport(p)
    \/ \E p \in DOMAIN procs : SavePhotos(p)
    \/ \E p \in DOMAIN procs : CommitPhotos(p)
    \/ \E p \in DOMAIN procs : RefreshReport(p)
    \/ \E p \in DOMAIN procs : DeleteFiles(p)
    \/ \E p \in DOMAIN procs : DeleteRow(p)

\* User 1 has created report 1 without photos; it is pending, or an
\* administrator has approved it.
InitAccess ==
    /\ fs = <<>>
    /\ dirs = {}
    /\ issued = 0
    /\ \E status \in { "pending", "approved" } :
          reports = [i \in { 1 } |-> UpdateStatus(WasteReport(1, None, 1), status, None)]
    /\ nextId = [report |-> 2, photo |-> 1, request |-> 1, today |-> 1]
    /\ photos = {}
    /\ procs = <<>>
    /\ call = NoCall

\* Up to MaxRequests read, update, delete and status requests of users and
\* administrators on the reports there are, interleaved in every way.
SpecAccess == InitAccess /\ [][NextAccess]_vars

\* a create request without photos, while no more than MaxReports report
\* rows are needed
CreateWithinBound(user) ==
    /\ nextId.report + Cardinality({ p \in DOMAIN procs : procs[p].pc = "create" }) <= MaxReports
    /\ CheckRateLimit(user, <<>>)

NextOwner ==
    \/ \E user \in Users : CreateWithinBound(user)
    \/ \E user \in Users, report_id \in ReportIds, files \in AccessBatches,
          description \in Descriptions :
             CheckEditPermission(user, report_id, files, description)
    \/ UpdateWasteReportStatus
    \/ \E p \in DOMAIN procs : CreateRow(p)
    \/ \E p \in DOMAIN procs : UpdateFields(p)
    \/ \E p \in DOMAIN procs : SavePhotos(p)
    \/ \E p \in DOMAIN procs : CommitPhotos(p)
    \/ \E p \in DOMAIN procs : RefreshReport(p)

\* Up to MaxRequests create, update and status requests, interleaved in every
\* way.
SpecOwner == InitAccess /\ [][NextOwner]_vars

\* the report is there, user owns it and it is pending
OwnPending(report_id, user) ==
    /\ report_id \in DOMAIN reports
    /\ reports[report_id].user_id = user
    /\ reports[report_id].status = "pending"

\* a request has been turned away by a dependency in this step: it got its
\* answer without reaching the handler
TurnedAway(op) ==
    /\ nextId'.request # nextId.request
    /\ procs' = procs
    /\ call'.op = op

\* C22: an update or delete request of a user who is not a superuser reaches
\* the handler only if, when check_edit_permission or check_delete_permission
\* runs, the report is there, the user owns it and its status is pending;
\* every other update or delete request of such a user is answered 403 by the
\* dependency, and that step changes no report row, no photo row and no file.
C22_OwnPendingOnly ==
    [][ /\ \A p \in DOMAIN procs' \ DOMAIN procs :
              (procs'[p].op \in { "update", "delete" } /\ ~is_superuser(procs'[p].user))
              => OwnPending(procs'[p].report_id, procs'[p].user)
        /\ \A op \in { "update", "delete" } :
              (TurnedAway(op) /\ ~is_superuser(call'.user))
              => /\ ~OwnPending(call'.report_id, call'.user)
                 /\ call'.err = (IF op = "update" THEN EditForbidden ELSE DeleteForbidden)
                 /\ call'.err.status_code = 403
                 /\ UNCHANGED <<reports, photos, fs, dirs>> ]_vars

\* the owner of report 1 has been refused an update of it because it is no
\* longer pending, while the report has a photo on disk
C22_Witness ==
    /\ call.op = "update"
    /\ call.err = EditForbidden
    /\ call.user = 1
    /\ call.report_id = 1
    /\ 1 \in DOMAIN reports
    /\ reports[1].user_id = 1
    /\ reports[1].status = "approved"
    /\ \E row \in photos : row.waste_report_id = 1 /\ Exists(fs, row.photo_url)

\* C23: get_waste_report returns a report only to its owner or to a
\* superuser: a request for a report that is not there is answered 404, a
\* request of another user who is not a superuser 403, and a report that is
\* returned is the one asked for. get_waste_reports returns the reports whose
\* user_id is the caller's and no other, superuser or not.
C23_OwnReportsOnly ==
    [][ /\ \A p \in DOMAIN procs' \ DOMAIN procs :
              procs'[p].op = "get"
              => /\ procs'[p].report_id \in DOMAIN reports
                 /\ \/ reports[procs'[p].report_id].user_id = procs'[p].user
                    \/ is_superuser(procs'[p].user)
        /\ TurnedAway("get")
              => IF call'.report_id \notin DOMAIN reports
                 THEN call'.err = NotFound /\ call'.err.status_code = 404
                 ELSE /\ call'.err = AccessForbidden
                      /\ call'.err.status_code = 403
                      /\ reports[call'.report_id].user_id # call'.user
                      /\ ~is_superuser(call'.user)
        /\ \A p \in DOMAIN procs \ DOMAIN procs' :
              procs[p].op = "get"
              => IF call'.err = NoError
                 THEN /\ Len(call'.items) = 1
                      /\ call'.items[1].id = procs[p].report_id
                      /\ \/ call'.items[1].user_id = procs[p].user
                         \/ is_superuser(procs[p].user)
                 ELSE call'.err = NotFound /\ procs[p].report_id \notin DOMAIN reports
        /\ TurnedAway("list")
              => /\ call'.err = NoError
                 /\ \A k \in 1..Len(call'.items) : call'.items[k].user_id = call'.user
                 /\ { call'.items[k].id : k \in 1..Len(call'.items) }
                       = { i \in DOMAIN reports : reports[i].user_id = call'.user } ]_vars

\* user 2, who is no superuser, has been refused report 1 of user 1
C23_Witness ==
    /\ call.op = "get"
    /\ call.err = AccessForbidden
    /\ call.user = 2
    /\ call.report_id \in DOMAIN reports
    /\ reports[call.report_id].user_id = 1

-----------------------------------------------------------------------------
(* Routing: the router tries its routes in the order in which they were
   registered and gives the request to the first one whose path and method
   match. Paths are taken after the prefix /waste-reports, as the sequence of
   their segments. *)

\* the path parameters of the routes
Params == { "{report_id}" }

\* the routes of the router, in the order of their decorators
Routes ==
    << [method |-> "POST", path |-> <<>>, endpoint |-> "create_waste_report"],
       [method |-> "GET", path |-> <<>>, endpoint |-> "get_waste_reports"],
       [method |-> "GET", path |-> << "{report_id}" >>, endpoint |-> "get_waste_report"],
       [method |-> "PUT", path |-> << "{report_id}" >>, endpoint |-> "update_waste_report"],
       [method |-> "DELETE", path |-> << "{report_id}" >>,
        endpoint |-> "delete_waste_report"],
       [method |-> "GET", path |-> << "types" >>, endpoint |-> "get_waste_types"] >>

\* the path regex of a route: a parameter matches any segment, whatever the
\* type its endpoint declares for it
PathMatches(pattern, path) ==
    /\ Len(pattern) = Len(path)
    /\ \A k \in 1..Len(path) : pattern[k] = path[k] \/ pattern[k] \in Params

\* The route that gets the request: the first whose path and method match;
\* 0 when no path matches, -1 when paths match but no method does
Match(method, path) ==
    LET full == { i \in 1..Len(Routes) :
                    PathMatches(Routes[i].path, path) /\ Routes[i].method = method }
    IN  IF full # {} THEN CHOOSE i \in full : \A j \in full : i <= j
        ELSE IF \E i \in 1..Len(Routes) : PathMatches(Routes[i].path, path) THEN -1
        ELSE 0

\* WasteType, as get_waste_types lists it
WasteTypes ==
    << [value |-> "household", label |-> "Household Waste"],
       [value |-> "recyclable", label |-> "Recyclable Materials"],
       [value |-> "electronic", label |-> "Electronic Waste"],
       [value |-> "construction", label |-> "Construction Debris"],
       [value |-> "hazardous", label |-> "Hazardous Materials"],
       [value |-> "organic", label |-> "Organic Waste"],
       [value |-> "illegal_dumping", label |-> "Illegal Dumping"],
       [value |-> "other", label |-> "Other"] >>

NotAuthenticated == HTTPException(401, "Not authenticated")
NoRoute == HTTPException(404, "Not Found")
MethodNotAllowed == HTTPException(405, "Method Not Allowed")
\* report_id does not parse as an integer
Unprocessable == [exc |-> "RequestValidationError", status_code |-> 422, detail |-> "report_id"]

Methods == { "GET", "POST", "PUT", "DELETE" }
Paths == { <<>>, << "1" >>, << "2" >>, << "types" >>, << "1", "photos" >> }
\* a request without a token
NoToken == 0

\* the account the request's token names
Tokens == { NoToken, 1, 3 }

\* an answer given before any handler of SpecAccess has been reached
Routed(method, path, token, endpoint, err, items) ==
    Reply(endpoint, token, 0, err, items) @@ [method |-> method, url |-> path]

\* A request to the router: routing, then get_current_user and the
\* validation of report_id as the dependencies of the endpoint are solved,
\* then the endpoint behind its permission dependency
Serve(method, path, token) ==
    LET route == Match(method, path)
        endpoint == Routes[route].endpoint
    IN  IF route <= 0 \/ endpoint = "get_waste_types" \/ token = NoToken
           \/ (Len(path) = 1 /\ IntOf(<< path[1] >>) = -1)
        THEN /\ nextId.request <= MaxRequests
             /\ call' =
                  IF route = 0 THEN Routed(method, path, token, None, NoRoute, <<>>)
                  ELSE IF route = -1
                  THEN Routed(method, path, token, None, MethodNotAllowed, <<>>)
                  ELSE IF endpoint = "get_waste_types"
                  THEN Routed(method, path, token, endpoint, NoError, WasteTypes)
                  ELSE IF token = NoToken
                  THEN Routed(method, path, token, endpoint, NotAuthenticated, <<>>)
                  ELSE Routed(method, path, token, endpoint, Unprocessable, <<>>)
             /\ nextId' = [nextId EXCEPT !.request = @ + 1]
             /\ UNCHANGED <<reports, photos, procs>>
             /\ ServiceUnchanged
        ELSE IF endpoint = "create_waste_report" THEN CreateWithinBound(token)
        ELSE IF endpoint = "get_waste_reports" THEN GetWasteReports(token, DefaultQuery)
        ELSE IF endpoint = "get_waste_report"
        THEN CheckReportOwnership(token, IntOf(<< path[1] >>))
        ELSE IF endpoint = "update_waste_report"
        THEN \E files \in AccessBatches, description \in Descriptions :
                CheckEditPermission(token, IntOf(<< path[1] >>), files, description)
        ELSE CheckDeletePermission(token, IntOf(<< path[1] >>))

NextRouter ==
    \/ \E method \in Methods, path \in Paths, token \in Tokens : Serve(method, path, token)
    \/ \E p \in DOMAIN procs : CreateRow(p)
    \/ \E p \in DOMAIN procs : UpdateFields(p)
    \/ \E p \in DOMAIN procs : DeleteGet(p)
    \/ \E p \in DOMAIN procs : GetWasteReport(p)
    \/ \E p \in DOMAIN procs : SavePhotos(p)
    \/ \E p \in DOMAIN procs : CommitPhotos(p)
    \/ \E p \in DOMAIN procs : RefreshReport(p)
    \/ \E p \in DOMAIN procs : DeleteFiles(p)
    \/ \E p \in DOMAIN procs : DeleteRow(p)

\* Up to MaxRequests requests to the paths under /waste-reports, with and
\* without a token.
SpecRouter == InitAccess /\ [][NextRouter]_vars

\* the last answer is the answer to GET /waste-reports/types sent without a
\* token
AnonymousTypesRequest ==
    /\ "method" \in DOMAIN call
    /\ call.method = "GET"
    /\ call.url = << "types" >>
    /\ call.user = NoToken

\* C24 as claimed: GET /waste-reports/types without authentication is
\* answered by get_waste_types with the list of the eight waste types.
C24_Claimed ==
    AnonymousTypesRequest
    => /\ call.op = "get_waste_types"
       /\ call.err = NoError
       /\ Len(call.items) = 8

\* what the router does with it: the request goes to get_waste_report, whose
\* route was registered first, and is answered 401
C24_ShadowedByReportRoute ==
    AnonymousTypesRequest
    => /\ call.op = "get_waste_report"
       /\ call.err = NotAuthenticated

\* C25: a report row is created with status pending, no admin_notes and the
\* user_id of the user who sent the create request; a step of
\* create_waste_report or update_waste_report, whatever fields and photos the
\* request carries, leaves status, admin_notes and user_id of every report as
\* they are; status and admin_notes change only in a step of
\* update_waste_report_status on that report, and user_id never changes.
C25_StatusOnlyByAdmin ==
    [][ /\ \A i \in DOMAIN reports' \ DOMAIN reports :
              /\ reports'[i].status = "pending"
              /\ reports'[i].admin_notes = None
              /\ \E p \in DOMAIN procs : /\ procs[p].op = "create"
                                         /\ Stepped(p)
                                         /\ reports'[i].user_id = procs[p].user
        /\ \A i \in DOMAIN reports \cap DOMAIN reports' :
              /\ reports'[i].user_id = reports[i].user_id
              /\ (\/ reports'[i].status # reports[i].status
                  \/ reports'[i].admin_notes # reports[i].admin_notes)
                 => /\ procs' = procs
                    /\ nextId'.request # nextId.request
                    /\ call'.op = "status"
                    /\ call'.report_id = i
                    /\ call'.err = NoError
                    /\ is_superuser(call'.user) ]_vars

\* report 1 has been edited after its approval and report 2 has been created
C25_Witness ==
    /\ DOMAIN reports = { 1, 2 }
    /\ reports[1].status = "approved"
    /\ reports[1].description = "edited"
    /\ reports[2].status = "pending"

\* a status update has been answered in this step
StatusAnswered ==
    /\ nextId'.request # nextId.request
    /\ procs' = procs
    /\ call'.op = "status"

C28_Claimed ==
    [][ \A p \in DOMAIN procs :
          (/\ procs[p].op \in { "update", "delete" }
           /\ ~is_superuser(procs[p].user)
           /\ Stepped(p)
           /\ reports' # reports \/ photos' # photos)
          => /\ procs[p].report_id \in DOMAIN reports
             /\ reports[procs[p].report_id].status = "pending" ]_vars

\* what holds instead: the report was the user's own and pending when the
\* dependency admitted the request, and it is still the user's own when the
\* request commits
C28_OwnAtCommit ==
    [][ \A p \in DOMAIN procs :
          (/\ procs[p].op \in { "update", "delete" }
           /\ ~is_superuser(procs[p].user)
           /\ Stepped(p)
           /\ reports' # reports \/ photos' # photos)
          => /\ procs[p].report_id \in DOMAIN reports
             /\ reports[procs[p].report_id].user_id = procs[p].user ]_vars

-----------------------------------------------------------------------------
(* Listing: get_waste_reports over a table that holds up to MaxRows reports
   of two users. *)

MaxRows == 3
MaxPage == 3

\* The table holds n reports, created in the order of their ids, two a day,
\* each by user 1 or user 2, pending or approved.
InitList ==
    /\ fs = <<>>
    /\ dirs = {}
    /\ issued = 0
    /\ \E n \in 0..MaxRows :
          /\ \E owner \in [1..n -> { 1, 2 }], status \in [1..n -> { "pending", "approved" }] :
                reports = [i \in 1..n |->
                             UpdateStatus(WasteReport(owner[i], None, (i + 1) \div 2),
                                          status[i], None)]
          /\ nextId = [report |-> n + 1, photo |-> 1, request |-> 1, today |-> (n + 2) \div 2]
    /\ photos = {}
    /\ procs = <<>>
    /\ call = NoCall

\* the listings asked for
Queries ==
    { Query(page, size, status, sort_by, sort_order) :
        page \in 0..MaxPage, size \in { 0, 1, 2, MaxPageSize, MaxPageSize + 1 },
        status \in { None, "pending" }, sort_by \in { "created_at", "id" },
        sort_order \in { "asc", "desc" } }

\* one listing of the table
NextList ==
    /\ call = NoCall
    /\ \E user \in { 1, 2 }, query \in Queries : GetWasteReports(user, query)

SpecList == InitList /\ [][NextList]_vars

\* the reports of the caller that pass the filter of the listing answered last
Matching ==
    { i \in DOMAIN reports :
        /\ reports[i].user_id = call.user
        /\ call.status = None \/ reports[i].status = call.status }

\* seq is sorted as the listing answered last asks
SortedAsAsked(seq) ==
    \A i, j \in 1..Len(seq) :
       i < j => IF call.sort_order = "desc"
                THEN SortColumn(call.sort_by, seq[i]) >= SortColumn(call.sort_by, seq[j])
                ELSE SortColumn(call.sort_by, seq[i]) <= SortColumn(call.sort_by, seq[j])

\* C27: for page >= 1 and size in 1..100, get_waste_reports answers with a
\* total that is the number of the caller's reports passing the filter,
\* whatever page and size; with pages = 1 when total is 0 and otherwise the
\* least number of pages of that size that hold total rows; and with the
\* items at positions (page - 1) * size + 1 .. page * size of the matching
\* reports in the order asked for, as far as there are any: never more than
\* size, and none when page > pages.
C27_Pagination ==
    (call.op = "list" /\ call.err = NoError)
    => /\ call.page >= 1 /\ call.size \in 1..MaxPageSize
       /\ call.total = Cardinality(Matching)
       /\ IF call.total = 0 THEN call.pages = 1
          ELSE /\ call.pages * call.size >= call.total
               /\ (call.pages - 1) * call.size < call.total
       /\ Len(call.items) <= call.size
       /\ call.page > call.pages => call.items = <<>>
       /\ \E seq \in Orderings(Matching) :
             /\ SortedAsAsked(seq)
             /\ Len(call.items) =
                   (IF call.total - (call.page - 1) * call.size < 0 THEN 0
                    ELSE IF call.total - (call.page - 1) * call.size < call.size
                    THEN call.total - (call.page - 1) * call.size
                    ELSE call.size)
             /\ \A k \in 1..Len(call.items) :
                   call.items[k] = Shown(seq[(call.page - 1) * call.size + k])

\* the second page of a listing of three reports, two a page: one item, and
\* the total is three
C27_Witness ==
    /\ call.op = "list"
    /\ call.err = NoError
    /\ call.page = 2
    /\ call.size = 2
    /\ call.total = 3
    /\ call.pages = 2
    /\ Len(call.items) = 1

-----------------------------------------------------------------------------
(* A database that can fail the commit of the row deletion. *)

\* db.commit() raised in WasteReportRepository.delete; nothing catches it
CommitFailed == [exc |-> "OperationalError", status_code |-> 500, detail |-> ""]

\* WasteReportRepository.delete in delete_waste_report when its commit
\* raises: the transaction is rolled back, the report row and its photo rows
\* stay, and the request is answered 500
DeleteRowFails(p) ==
    /\ procs[p].pc = "row"
    /\ Get(procs[p].report_id) # 0
    /\ Answered(p, CommitFailed)
    /\ UNCHANGED <<reports, photos, nextId>>
    /\ ServiceUnchanged

NextDbFault ==
    \/ NextApi
    \/ \E p \in DOMAIN procs : DeleteRowFails(p)

\* The handlers of SpecApi on a database whose commit of a row deletion can
\* fail.
SpecDbFault == InitApi /\ [][NextDbFault]_vars

\* the row deletion of delete request p has failed in this step
DeleteFails(p) ==
    /\ procs[p].op = "delete"
    /\ procs[p].pc = "row"
    /\ p \notin DOMAIN procs'
    /\ call'.err # NoError

\* C29 as claimed: when the row deletion of delete_waste_report fails, by
\* WasteReportRepository.delete returning False or by its commit raising, the
\* request reports an error, the report row and its WastePhoto rows remain,
\* and their photo_url values name files that no longer exist.
C29_Claimed ==
    [][ \A p \in DOMAIN procs :
          DeleteFails(p)
          => /\ call'.err.status_code = 500
             /\ procs[p].report_id \in DOMAIN reports'
             /\ \A row \in photos' :
                   row.waste_report_id = procs[p].report_id => ~Exists(fs', row.photo_url) ]_vars

\* C29: delete_waste_report removes the files of the report before it
\* deletes the row and restores nothing. When the row deletion then fails, the
\* request is answered 500 and the step changes no row and no file. If the
\* commit raised, the report row and its photo rows are still there, and,
\* unless an upload has stored files for the report since
\* delete_report_files ran, every photo_url of the report names a file that
\* no longer exists. If WasteReportRepository.delete returned False, the
\* report row was gone already and no photo row of the report is left.
C29_FilesGoneRowsStay ==
    [][ \A p \in DOMAIN procs :
          DeleteFails(p)
          => /\ call'.err.status_code = 500
             /\ UNCHANGED <<reports, photos, fs, dirs>>
             /\ IF call'.err = CommitFailed
                THEN /\ procs[p].report_id \in DOMAIN reports'
                     /\ ~procs[p].refilled
                        => /\ FilesIn(fs', ReportDir(procs[p].report_id)) = {}
                           /\ \A row \in photos' :
                                 row.waste_report_id = procs[p].report_id
                                 => ~Exists(fs', row.photo_url)
                ELSE /\ call'.err = DeleteFailed
                     /\ procs[p].report_id \notin DOMAIN reports'
                     /\ \A row \in photos' : row.waste_report_id # procs[p].report_id ]_vars

\* a delete request has been answered 500 after its commit raised: the report
\* and a photo row of it are there, the file the row names is not
C29_Witness ==
    /\ call.op = "delete"
    /\ call.err = CommitFailed
    /\ call.report_id \in DOMAIN reports
    /\ \E row \in photos : /\ row.waste_report_id = call.report_id
                           /\ ~Exists(fs, row.photo_url)

-----------------------------------------------------------------------------
(* Successive update requests that add photos to one report. *)

\* The photos sent with the update requests: batches of valid files up to one
\* more than the limit, and a batch whose second file fails
AppendBatches ==
    { ValidRun(1), ValidRun(2), ValidRun(MAX_FILES_PER_REPORT - 4),
      ValidRun(MAX_FILES_PER_REPORT), ValidRun(MAX_FILES_PER_REPORT + 1),
      <<ValidPng, TextAsJpeg>> }

\* update_waste_report called with photos only, up to its call of
\* save_multiple_files, when the request before it has been answered
UpdatePhotos == \E report_id \in ReportIds, files \in AppendBatches :
    /\ procs = <<>>
    /\ IF Get(report_id) = 0
       THEN /\ nextId.request <= MaxRequests
            /\ call' = Response("update", report_id, files, NotFound)
            /\ UNCHANGED procs
       ELSE /\ Arrives(Request("update", IF HasPhotos(files) THEN "save" ELSE "refresh",
                               report_id, files))
            /\ UNCHANGED call
    /\ nextId' = [nextId EXCEPT !.request = @ + 1]
    /\ UNCHANGED <<reports, photos>>
    /\ ServiceUnchanged

NextAppend ==
    \/ UpdatePhotos
    \/ \E p \in DOMAIN procs : SavePhotos(p)
    \/ \E p \in DOMAIN procs : CommitPhotos(p)
    \/ \E p \in DOMAIN procs : RefreshReport(p)

\* Report 1 exists and has no photo.
InitAppend ==
    /\ fs = <<>>
    /\ dirs = {}
    /\ issued = 0
    /\ reports = [i \in { 1 } |-> [status |-> "pending", description |-> None]]
    /\ nextId = [report |-> 2, photo |-> 1, request |-> 1]
    /\ photos = {}
    /\ procs = <<>>
    /\ call = NoCall

\* Up to MaxRequests update requests with photos, one after the other.
SpecAppend == InitAppend /\ [][NextAppend]_vars

\* the photo rows of a report that name a file that is there
Attachments(report_id) ==
    { row \in photos : row.waste_report_id = report_id /\ Exists(fs, row.photo_url) }

\* C30: whether an update request's batch is refused for its number of files
\* depends on the length of the batch alone: it is refused exactly when it
\* holds more than MAX_FILES_PER_REPORT files, however many files and photo
\* rows the report has already. The upload keeps every file that was there
\* and, for a batch of valid files within the limit, adds one file per
\* candidate; create_multiple keeps every photo row and adds one row per
\* file stored.
C30_LimitPerBatchOnly ==
    [][ \A p \in DOMAIN procs :
          /\ (procs[p].pc = "save" /\ Stepped(p))
             => /\ (procs'[p].swallowed = TooManyFiles)
                      <=> (Len(procs[p].photos) > MAX_FILES_PER_REPORT)
                /\ \A path \in DOMAIN fs : path \in DOMAIN fs' /\ fs'[path] = fs[path]
                /\ (/\ Len(procs[p].photos) <= MAX_FILES_PER_REPORT
                    /\ \A k \in 1..Len(procs[p].photos) : procs[p].photos[k] \in ValidFiles)
                   => /\ procs'[p].swallowed = NoError
                      /\ Cardinality(DOMAIN fs') = Cardinality(DOMAIN fs) + Len(procs[p].photos)
          /\ (procs[p].pc = "commit" /\ Stepped(p))
             => /\ photos \subseteq photos'
                /\ Cardinality(photos') = Cardinality(photos) + Len(procs[p].photo_urls) ]_vars

\* report 1 has more than MAX_FILES_PER_REPORT attachments
C30_Witness ==
    /\ procs = <<>>
    /\ Cardinality(Attachments(1)) > MAX_FILES_PER_REPORT
    /\ Cardinality(FilesIn(fs, ReportDir(1))) = Cardinality(Attachments(1))

=============================================================================
